---- MODULE Spec2Model ----
(***************************************************************************)
(* A model of the region-construction pipeline of FourNiner                *)
(* (src/src/region-processor.js): density clustering, cluster-count        *)
(* balancing, hull building and directional labelling.                     *)
(*                                                                         *)
(* Geometry.  The program works on floating-point longitudes/latitudes and *)
(* the haversine metric.  The model places points on a small integer grid  *)
(* and keeps every derived location (a bounding-box centre, a k-means      *)
(* centroid) as an exact fraction lng/den, lat/den.  A distance is the     *)
(* squared planar distance, again an exact fraction num/den; on a small    *)
(* patch it orders pairs of locations as the haversine distance does, and  *)
(* the program only ever compares distances.                               *)
(*                                                                         *)
(* Identity.  A point is an index into features; two points with the same  *)
(* coordinates are different points, as two array elements are in the      *)
(* program.                                                                *)
(***************************************************************************)
EXTENDS Integers, Sequences, FiniteSets, TLC

VARIABLES
  entry,        \* the function the run entered through
  pc,           \* position of the run
  features,     \* points.features: the input points, [lng, lat] each
  targetCount,  \* targetRegions / targetCount
  maxDistance,  \* the neighbourhood radius of the density pass (squared, a fraction)
  minPoints,    \* the neighbour count that makes a point a cluster seed
  idx,          \* the loop index i of the running for loop
  visited,      \* performDBSCANClustering.visited
  clustered,    \* performDBSCANClustering.clustered
  clusters,     \* the cluster array, [id, points, size] each
  round,        \* how many times adjustClusterCount was entered in this run
  input,        \* the cluster array adjustClusterCount was first called with
  firstResult,  \* what the first call of adjustClusterCount returned
  regionPolygons, \* what clustersToPolygons returned: null, or a FeatureCollection
  hullLog,      \* per cluster clustersToPolygons went through, how its hull went
  inputCount,   \* the number of points createRegions was called with
  rawData,      \* the parsed data file convertToGeoJSON is called with
  dropped,      \* the records convertToGeoJSON skipped with a warning
  written,      \* what processCountryData wrote to the regions file, write by write
  countryId,    \* the country identifier of the run
  cities,       \* citiesData: the gazetteer, [name, countryCode, population, inside] each
  regionName,   \* what findCitiesInRegion returned for the region
  firstRegions, \* what an earlier call of createRegions on the same arguments returned
  options,      \* the options argument of createRegions
  koppen,       \* the climate raster: the value of its pixels, by longitude
  zones,        \* the climate zones of the allocation, [points, quota] each
  loopCount,    \* the iterations of the quota reconciliation so far
  warning,      \* whether the allocation told its caller of an off-target sum
  pointYears,   \* properties.years of the points getFrequentYears is called with
  yearTags      \* what getFrequentYears returned

vars == <<entry, pc, features, targetCount, maxDistance, minPoints, idx, visited,
          clustered, clusters, round, input, firstResult, regionPolygons, hullLog,
          inputCount, rawData, dropped, written,
          countryId, cities, regionName, firstRegions, options, koppen,
          zones, loopCount, warning, pointYears, yearTags>>

outVars == <<regionPolygons, hullLog, inputCount>>

dbscanVars == <<maxDistance, minPoints, idx, visited, clustered>>

\* The variables of the steps around the region construction.
extVars == <<rawData, dropped, written, countryId, cities, regionName, firstRegions,
             options, koppen, zones, loopCount, warning, pointYears, yearTags>>

\* The variables of the region naming.
cityVars == <<countryId, cities, regionName>>

\* The variables of the naming and of the repeated call.
aroundVars == <<countryId, cities, regionName, firstRegions, options, koppen,
               zones, loopCount, warning, pointYears, yearTags>>

\* The variables of the year tagging.
yearVars == <<pointYears, yearTags>>

\* The variables of the zone allocation.
allocVars == <<zones, loopCount, warning>>

\* The variables of the region construction.
regionVars == <<features, targetCount, maxDistance, minPoints, idx, visited, clustered,
                clusters, round, input, firstResult, regionPolygons, hullLog, inputCount>>

(***************************************************************************)
(* Bounds of the model.                                                    *)
(***************************************************************************)
MaxPoints == 6
MaxClusters == 2
MaxTarget == 2
MaxDbscanPoints == 4
MaxRegionPoints == 6
MaxRegions == 4
MaxRecords == 3
MaxCities == 2
MaxRerunPoints == 4
MaxKoppenPoints == 3
MaxMergePoints == 4
MaxNoisePoints == 6
MaxYearPoints == 3
MaxTags == 2
MaxMergeClusters == 3
MaxZones == 4
MaxUnit == 32
MaxQuotaTarget == 10

\* The grid of the balancing and pipeline runs, and the wider grid of the
\* density pass, on which two dense groups can lie apart.
Coordinates == [lng : 0..1, lat : 0..1]
DbscanCoordinates == [lng : 0..2, lat : 0..1]

\* The grid of the createRegions runs, and the grid of the region centres
\* of the assignDirectionalIds runs.
PointCoordinates == [lng : 0..2, lat : 0..2]
CenterCoordinates == [lng : 0..4, lat : 0..3]

\* The line of the noise runs, on which a dense group and a point apart
\* from it have room with the minPoints of createRegions.
NoiseCoordinates == [lng : 0..5, lat : {0}]

\* The radii of the density pass, squared.
Radii == {[num |-> r, den |-> 1] : r \in 0..2}

(***************************************************************************)
(* Program constants.                                                      *)
(***************************************************************************)
DefaultMinPoints == 3
MinSplitSize_Two == 3 - 1
MinSplitSize == 3
MinHullPoints == 3
MAX_ITERATIONS == 10
SimplifyThreshold == 10000
PopulationRatio == 3
MaxClimateValue == 30
PointsPerRegion == 30
ScoreFactor == 100
TopYears == 3

(***************************************************************************)
(* Arithmetic helpers.                                                     *)
(***************************************************************************)
SetMin(S) == CHOOSE x \in S : \A y \in S : x <= y
SetMax(S) == CHOOSE x \in S : \A y \in S : x >= y

Infinity == [num |-> 1, den |-> 0]

\* d1 < d2 on distances kept as fractions (Infinity is 1/0).
DistLess(d1, d2) == d1.num * d2.den < d2.num * d1.den

\* { lat, lng } of a point feature.
PointLoc(p) == [lng |-> p.lng, lat |-> p.lat, den |-> 1]

\* haversineDistance(point1, point2): squared planar distance of two
\* locations, as a fraction.
haversineDistance(point1, point2) ==
  LET dLng == point2.lng * point1.den - point1.lng * point2.den
      dLat == point2.lat * point1.den - point1.lat * point2.den
  IN [num |-> dLng * dLng + dLat * dLat,
      den |-> (point1.den * point2.den) * (point1.den * point2.den)]

\* A centre taken as the mean of the member coordinates.
RECURSIVE SumLng(_)
SumLng(points) == IF points = <<>> THEN 0 ELSE features[Head(points)].lng + SumLng(Tail(points))

RECURSIVE SumLat(_)
SumLat(points) == IF points = <<>> THEN 0 ELSE features[Head(points)].lat + SumLat(Tail(points))

calculateClusterCenter_Mean(points) ==
  [lng |-> SumLng(points), lat |-> SumLat(points), den |-> Len(points)]

\* calculateClusterCenter(points): the single point itself, else turf.center,
\* the centre of the bounding box of the points.  points is never empty here.
calculateClusterCenter(points) ==
  IF Len(points) = 1
  THEN PointLoc(features[points[1]])
  ELSE LET lngs == {features[points[k]].lng : k \in 1..Len(points)}
           lats == {features[points[k]].lat : k \in 1..Len(points)}
       IN [lng |-> SetMin(lngs) + SetMax(lngs),
           lat |-> SetMin(lats) + SetMax(lats),
           den |-> 2]

(***************************************************************************)
(* findNeighbors(features, point, maxDistance): the indices, in array      *)
(* order, of the features whose coordinates differ from the point's and    *)
(* lie within maxDistance of it.                                           *)
(***************************************************************************)
IsNeighbor(p, i) ==
  /\ ~(features[p].lng = features[i].lng /\ features[p].lat = features[i].lat)
  /\ ~DistLess(maxDistance,
               haversineDistance(PointLoc(features[p]), PointLoc(features[i])))

RECURSIVE NeighborsFrom(_, _)
NeighborsFrom(p, i) ==
  IF i > Len(features) THEN <<>>
  ELSE (IF IsNeighbor(p, i) THEN <<i>> ELSE <<>>) \o NeighborsFrom(p, i + 1)

findNeighbors(p) == NeighborsFrom(p, 1)

(***************************************************************************)
(* performDBSCANClustering: the while (queue.length > 0) loop that grows   *)
(* one cluster from the neighbours of its seed.                            *)
(***************************************************************************)
\* A queue loop that adds every dequeued neighbour to the cluster, clustered
\* already or not.
RECURSIVE ExpandCluster_NoClusteredCheck(_, _, _, _)
ExpandCluster_NoClusteredCheck(queue, vis, clu, cluster) ==
  IF queue = <<>>
  THEN [visited |-> vis, clustered |-> clu, cluster |-> cluster]
  ELSE LET neighborId == Head(queue)
           newNeighbors == NeighborsFrom(neighborId, 1)
           grown == IF neighborId \notin vis /\ Len(newNeighbors) >= minPoints
                    THEN Tail(queue) \o newNeighbors
                    ELSE Tail(queue)
       IN ExpandCluster_NoClusteredCheck(grown, vis \cup {neighborId},
                                         clu \cup {neighborId},
                                         Append(cluster, neighborId))

RECURSIVE ExpandCluster(_, _, _, _)
ExpandCluster(queue, vis, clu, cluster) ==
  IF queue = <<>>
  THEN [visited |-> vis, clustered |-> clu, cluster |-> cluster]
  ELSE LET neighborId == Head(queue)
           newNeighbors == findNeighbors(neighborId)
           grown == IF neighborId \notin vis /\ Len(newNeighbors) >= minPoints
                    THEN Tail(queue) \o newNeighbors
                    ELSE Tail(queue)
       IN ExpandCluster(grown, vis \cup {neighborId}, clu \cup {neighborId},
                        IF neighborId \notin clu THEN Append(cluster, neighborId)
                        ELSE cluster)

\* { id: clusters.length, points: cluster, size: cluster.length }
PushCluster(cs, cluster) ==
  Append(cs, [id |-> Len(cs), points |-> cluster, size |-> Len(cluster)])

\* nearestCluster.points.push(point)
PushNoise(cs, k, point) == [cs EXCEPT ![k].points = Append(@, point)]

(***************************************************************************)
(* Array.prototype.sort with the two comparators of adjustClusterCount.    *)
(* The sort is stable: equal keys keep their order.                        *)
(***************************************************************************)
\* An insertion that puts an element before its equals: an unstable sort.
RECURSIVE InsertAsc_Unstable(_, _)
InsertAsc_Unstable(sorted, c) ==
  IF sorted = <<>> THEN <<c>>
  ELSE IF Len(Head(sorted).points) < Len(c.points)
       THEN <<Head(sorted)>> \o InsertAsc_Unstable(Tail(sorted), c)
       ELSE <<c>> \o sorted

RECURSIVE InsertAsc(_, _)
InsertAsc(sorted, c) ==
  IF sorted = <<>> THEN <<c>>
  ELSE IF Len(Head(sorted).points) <= Len(c.points)
       THEN <<Head(sorted)>> \o InsertAsc(Tail(sorted), c)
       ELSE <<c>> \o sorted

RECURSIVE SortSmallestFirst(_)
SortSmallestFirst(cs) ==
  IF cs = <<>> THEN <<>>
  ELSE InsertAsc(SortSmallestFirst(SubSeq(cs, 1, Len(cs) - 1)), cs[Len(cs)])

RECURSIVE InsertDesc(_, _)
InsertDesc(sorted, c) ==
  IF sorted = <<>> THEN <<c>>
  ELSE IF Len(Head(sorted).points) >= Len(c.points)
       THEN <<Head(sorted)>> \o InsertDesc(Tail(sorted), c)
       ELSE <<c>> \o sorted

RECURSIVE SortLargestFirst(_)
SortLargestFirst(cs) ==
  IF cs = <<>> THEN <<>>
  ELSE InsertDesc(SortLargestFirst(SubSeq(cs, 1, Len(cs) - 1)), cs[Len(cs)])

(***************************************************************************)
(* adjustClusterCount: the search for the nearest cluster to merge into.   *)
(***************************************************************************)
RECURSIVE NearestFrom(_, _, _, _, _)
NearestFrom(center, cs, i, best, minDistance) ==
  IF i > Len(cs) THEN best
  ELSE LET distance == haversineDistance(center, calculateClusterCenter(cs[i].points))
       IN IF DistLess(distance, minDistance)
          THEN NearestFrom(center, cs, i + 1, i, distance)
          ELSE NearestFrom(center, cs, i + 1, best, minDistance)

nearestClusterIndex(smallestCluster, cs) ==
  NearestFrom(calculateClusterCenter(smallestCluster.points), cs, 1, 1, Infinity)

\* A merge that assigns the points instead of appending them.
MergeInto_Assigns(cs, k, smallestCluster) ==
  [cs EXCEPT ![k].points = smallestCluster.points]

\* clusters[nearestClusterIndex].points.push(...smallestCluster.points)
MergeInto(cs, k, smallestCluster) ==
  [cs EXCEPT ![k].points = @ \o smallestCluster.points]

(***************************************************************************)
(* splitCluster(cluster, 2).  seed0 and seed1 are the two distinct random  *)
(* indices the centroids are initialised from.                             *)
(***************************************************************************)
\* points.map(...): index of the nearest centroid, the first one on a tie.
AssignNearest(points, c0, c1) ==
  [k \in 1..Len(points) |->
     LET p == PointLoc(features[points[k]])
     IN IF DistLess(haversineDistance(p, c1), haversineDistance(p, c0)) THEN 1 ELSE 0]

\* The mean of the points assigned to centroid c; the old centroid when none is.
UpdateCentroid(points, assignments, c, old) ==
  LET members == {k \in 1..Len(points) : assignments[k] = c}
      RECURSIVE Sum(_, _)
      Sum(S, axis) ==
        IF S = {} THEN 0
        ELSE LET k == CHOOSE x \in S : TRUE
             IN (IF axis = "lng" THEN features[points[k]].lng ELSE features[points[k]].lat)
                + Sum(S \ {k}, axis)
  IN IF members = {} THEN old
     ELSE [lng |-> Sum(members, "lng"), lat |-> Sum(members, "lat"),
           den |-> Cardinality(members)]

RECURSIVE KMeans(_, _, _, _, _)
KMeans(points, c0, c1, assignments, iterations) ==
  LET newAssignments == AssignNearest(points, c0, c1)
      converged == (newAssignments = assignments)
  IN IF converged \/ iterations + 1 >= MAX_ITERATIONS
     THEN newAssignments
     ELSE KMeans(points,
                 UpdateCentroid(points, newAssignments, 0, c0),
                 UpdateCentroid(points, newAssignments, 1, c1),
                 newAssignments, iterations + 1)

\* points.filter((_, index) => assignments[index] === c)
RECURSIVE FilterAssigned(_, _, _, _)
FilterAssigned(points, assignments, c, k) ==
  IF k > Len(points) THEN <<>>
  ELSE (IF assignments[k] = c THEN <<points[k]>> ELSE <<>>)
       \o FilterAssigned(points, assignments, c, k + 1)

NewCluster(c, clusterPoints) ==
  IF clusterPoints = <<>> THEN <<>>
  ELSE <<[id |-> c, points |-> clusterPoints, size |-> Len(clusterPoints)]>>

splitCluster(cluster, seed0, seed1) ==
  LET points == cluster.points
      assignments ==
        KMeans(points, PointLoc(features[points[seed0]]),
               PointLoc(features[points[seed1]]),
               [k \in 1..Len(points) |-> 0], 0)
  IN NewCluster(0, FilterAssigned(points, assignments, 0, 1))
     \o NewCluster(1, FilterAssigned(points, assignments, 1, 1))

(***************************************************************************)
(* performDBSCANClustering(points, maxDistance, minPoints), one action per *)
(* iteration of its two for loops.                                         *)
(***************************************************************************)
\* Where the run goes when performDBSCANClustering returns.
AfterDbscan == IF entry = "performDBSCANClustering" THEN "done" ELSE "adjust"

\* One iteration of the first loop: for each point, try to form a cluster.
DbscanVisit ==
  /\ pc = "dbscan"
  /\ idx <= Len(features)
  /\ IF idx \in visited
     THEN UNCHANGED <<visited, clustered, clusters>>
     ELSE LET neighbors == findNeighbors(idx)
          IN IF Len(neighbors) < minPoints
             THEN /\ visited' = visited \cup {idx}
                  /\ UNCHANGED <<clustered, clusters>>
             ELSE LET grown == ExpandCluster(neighbors, visited \cup {idx},
                                             clustered \cup {idx}, <<idx>>)
                  IN /\ visited' = grown.visited
                     /\ clustered' = grown.clustered
                     /\ clusters' = PushCluster(clusters, grown.cluster)
  /\ idx' = idx + 1
  /\ UNCHANGED <<entry, pc, features, targetCount, maxDistance, minPoints, round,
                 input, firstResult, outVars, extVars>>

\* The first loop is over: handle unclustered points.
DbscanToNoise ==
  /\ pc = "dbscan"
  /\ idx > Len(features)
  /\ pc' = "noise"
  /\ idx' = 1
  /\ UNCHANGED <<entry, features, targetCount, maxDistance, minPoints, visited,
                 clustered, clusters, round, input, firstResult, outVars,
                 extVars>>

\* One iteration of the second loop: an unclustered point goes to the
\* nearest cluster, or founds a cluster when there is none.
DbscanNoise ==
  /\ pc = "noise"
  /\ idx <= Len(features)
  /\ IF idx \in clustered
     THEN UNCHANGED clusters
     ELSE LET nearestCluster == NearestFrom(PointLoc(features[idx]), clusters, 1, 0, Infinity)
          IN IF nearestCluster # 0
             THEN clusters' = PushNoise(clusters, nearestCluster, idx)
             ELSE clusters' = PushCluster(clusters, <<idx>>)
  /\ idx' = idx + 1
  /\ UNCHANGED <<entry, pc, features, targetCount, maxDistance, minPoints, visited,
                 clustered, round, input, firstResult, outVars, extVars>>

\* return clusters
DbscanReturn ==
  /\ pc = "noise"
  /\ idx > Len(features)
  /\ pc' = AfterDbscan
  /\ input' = clusters
  /\ UNCHANGED <<entry, features, targetCount, dbscanVars, clusters, round, firstResult, outVars,
                 extVars>>

(***************************************************************************)
(* adjustClusterCount(clusters, targetCount), one action per statement or  *)
(* loop iteration.                                                         *)
(***************************************************************************)
\* A merge loop that stops one cluster early.
MergeNeeded_OffByOne(cs, target) == Len(cs) > target + 1

\* while (clusters.length > targetCount)
MergeNeeded(cs, target) == Len(cs) > target

\* A split loop that stops one cluster early.
SplitNeeded_StopsEarly(cs, target) == Len(cs) + 1 < target

\* while (clusters.length < targetCount)
SplitNeeded(cs, target) == Len(cs) < target

\* Where the run goes when adjustClusterCount returns.
AfterAdjust == IF entry = "adjustClusterCount" THEN "done" ELSE "polygons"

\* clusters.sort((a, b) => a.points.length - b.points.length)
AdjustSort ==
  /\ pc = "adjust"
  /\ clusters' = SortSmallestFirst(clusters)
  /\ pc' = "merge"
  /\ UNCHANGED <<entry, features, targetCount, dbscanVars, round, input, firstResult, outVars,
                 extVars>>

\* One iteration of while (clusters.length > targetCount), or its exit.
MergeStep ==
  /\ pc = "merge"
  /\ IF MergeNeeded(clusters, targetCount)
     THEN LET smallestCluster == Head(clusters)
              rest == Tail(clusters)
          IN IF rest = <<>>
             THEN /\ clusters' = <<smallestCluster>>
                  /\ pc' = "split"
             ELSE /\ clusters' =
                       MergeInto(rest, nearestClusterIndex(smallestCluster, rest),
                                 smallestCluster)
                  /\ pc' = "merge"
     ELSE /\ clusters' = clusters
          /\ pc' = "split"
  /\ UNCHANGED <<entry, features, targetCount, dbscanVars, round, input, firstResult, outVars,
                 extVars>>

\* One iteration of while (clusters.length < targetCount), or its exit.
\* clusters.shift() of an empty array gives undefined, and reading its points
\* throws a TypeError.
SplitStep ==
  /\ pc = "split"
  /\ IF SplitNeeded(clusters, targetCount)
     THEN IF clusters = <<>>
          THEN /\ clusters' = clusters
               /\ pc' = "thrown"
          ELSE LET sorted == SortLargestFirst(clusters)
                   largestCluster == Head(sorted)
                   rest == Tail(sorted)
               IN IF Len(largestCluster.points) < MinSplitSize
                  THEN /\ clusters' = rest \o <<largestCluster>>
                       /\ pc' = "renumber"
                  ELSE \E seed0, seed1 \in 1..Len(largestCluster.points) :
                         /\ seed0 # seed1
                         /\ clusters' = rest \o splitCluster(largestCluster, seed0, seed1)
                         /\ pc' = "split"
     ELSE /\ clusters' = clusters
          /\ pc' = "renumber"
  /\ UNCHANGED <<entry, features, targetCount, dbscanVars, round, input, firstResult, outVars,
                 extVars>>

\* for (...) clusters[i].id = i; return clusters.  The loop a caller runs
\* next starts at the first cluster.
Renumber ==
  /\ pc = "renumber"
  /\ clusters' = [k \in 1..Len(clusters) |-> [clusters[k] EXCEPT !.id = k - 1]]
  /\ pc' = AfterAdjust
  /\ idx' = 1
  /\ UNCHANGED <<entry, features, targetCount, maxDistance, minPoints, visited, clustered,
                 round, input, firstResult, outVars, extVars>>

\* The caller feeds the returned array to adjustClusterCount once more.
Reapply ==
  /\ pc = "done"
  /\ entry = "adjustClusterCount"
  /\ round = 1
  /\ round' = 2
  /\ firstResult' = clusters
  /\ pc' = "adjust"
  /\ UNCHANGED <<entry, features, targetCount, dbscanVars, clusters, input, outVars, extVars>>

(***************************************************************************)
(* clustersToPolygons(clusters, countryId), one action per cluster.        *)
(*                                                                         *)
(* turf.convex and turf.buffer are library calls.  turf.convex returns     *)
(* null, without throwing, when the points span no area (they are          *)
(* collinear or coincide).  Either call may also fail with an exception    *)
(* (the legacy turf package loaded as a fallback differs in what it        *)
(* accepts), which is a choice of the environment here.                    *)
(***************************************************************************)
NumId(k) == [dir |-> "#", num |-> k]
Unset == [dir |-> "unset", num |-> 0]

\* The points of the cluster span no area.
Collinear(points) ==
  \A a \in 1..Len(points), b \in 1..Len(points), c \in 1..Len(points) :
    LET pa == features[points[a]]
        pb == features[points[b]]
        pc3 == features[points[c]]
    IN (pb.lng - pa.lng) * (pc3.lat - pa.lat) = (pb.lat - pa.lat) * (pc3.lng - pa.lng)

\* A size check that lets clusters of two points through.
TooSmallForHull_BelowTwo(cluster) == Len(cluster.points) < MinHullPoints - 1

\* if (cluster.points.length < 3): the cluster is skipped
TooSmallForHull(cluster) == Len(cluster.points) < MinHullPoints

\* The feature pushed for a cluster: the polygon with its properties.
\* turf.center of the polygon, which assignDirectionalIds reads later, is the
\* centre of the bounding box of the hull, that is of the cluster's points,
\* and the centre the buffer was drawn around.
RegionFeature(cluster, hull) ==
  [clusterID |-> NumId(cluster.id),
   pointCount |-> Len(cluster.points),
   hull |-> hull,
   center |-> calculateClusterCenter(cluster.points),
   directionId |-> Unset,
   originalClusterID |-> Unset]

\* The body of the for loop for one cluster.  outcome is how the hull went:
\* "small" (skipped), "convex", "none" (turf.convex returned null, the cluster
\* is skipped), "buffer" (turf.convex threw, turf.buffer gave the polygon),
\* "failed" (both threw: return null).
HullOutcome(cluster, convexThrows, bufferThrows) ==
  IF TooSmallForHull(cluster) THEN "small"
  ELSE IF convexThrows
       THEN IF bufferThrows THEN "failed" ELSE "buffer"
       ELSE IF Collinear(cluster.points) THEN "none" ELSE "convex"

PolygonStep ==
  /\ pc = "polygons"
  /\ idx <= Len(clusters)
  /\ \E convexThrows \in BOOLEAN, bufferThrows \in BOOLEAN :
       LET cluster == clusters[idx]
           outcome == HullOutcome(cluster, convexThrows, bufferThrows)
       IN /\ hullLog' = Append(hullLog, outcome)
          /\ IF outcome = "failed"
             THEN /\ regionPolygons' = [null |-> TRUE, features |-> <<>>]
                  /\ pc' = "label"
                  /\ idx' = idx
             ELSE /\ regionPolygons' =
                       IF outcome \in {"convex", "buffer"}
                       THEN [regionPolygons EXCEPT
                               !.features = Append(@, RegionFeature(cluster, outcome))]
                       ELSE regionPolygons
                  /\ pc' = "polygons"
                  /\ idx' = idx + 1
  /\ UNCHANGED <<entry, features, targetCount, maxDistance, minPoints, visited,
                 clustered, clusters, round, input, firstResult, inputCount,
                 extVars>>

\* return { type: 'FeatureCollection', features: features }
PolygonsReturn ==
  /\ pc = "polygons"
  /\ idx > Len(clusters)
  /\ pc' = "label"
  /\ UNCHANGED <<entry, features, targetCount, dbscanVars, clusters, round, input,
                 firstResult, outVars, extVars>>

(***************************************************************************)
(* assignDirectionalIds(geoJson, countryId).                               *)
(*                                                                         *)
(* A bearing is kept as the vector from the country centre to the region   *)
(* centre; Sector16 is the sixteenth of the compass, of 22.5 degrees each  *)
(* and counted clockwise from north, that the bearing lies in.  Every      *)
(* threshold the function compares a bearing with is a multiple of 22.5,   *)
(* so bearing >= 22.5 * k is Sector16 >= k, exactly.                       *)
(***************************************************************************)
\* A location with denominator 1 or 2, in halves.
Halves(loc) == [lng |-> loc.lng * (2 \div loc.den), lat |-> loc.lat * (2 \div loc.den)]

\* turf.center(allPoints): the centre of the bounding box of the region centres.
CountryCenter(centers) ==
  LET lngs == {Halves(centers[k]).lng : k \in 1..Len(centers)}
      lats == {Halves(centers[k]).lat : k \in 1..Len(centers)}
  IN [lng |-> SetMin(lngs) + SetMax(lngs),
      lat |-> SetMin(lats) + SetMax(lats),
      den |-> 4]

\* calculateBearing(lat1, lng1, lat2, lng2), as the vector (east, north).
calculateBearing(from, to) ==
  [east |-> to.lng * from.den - from.lng * to.den,
   north |-> to.lat * from.den - from.lat * to.den]

\* The eighth of a quarter turn that the angle from axis u towards axis v
\* lies in (u >= 0, v >= 0, not both 0): tan 22.5 is sqrt(2) - 1.
SubSector(u, v) ==
  IF (u + v) * (u + v) < 2 * u * u THEN 0
  ELSE IF v < u THEN 1
  ELSE IF (u + v) * (u + v) > 2 * v * v THEN 2
  ELSE 3

Sector16(bearing) ==
  LET e == bearing.east
      n == bearing.north
  IN IF e = 0 /\ n = 0 THEN 0
     ELSE IF e >= 0 /\ n > 0 THEN SubSector(n, e)
     ELSE IF e > 0 /\ n <= 0 THEN 4 + SubSector(e, -n)
     ELSE IF e <= 0 /\ n < 0 THEN 8 + SubSector(-n, -e)
     ELSE 12 + SubSector(-e, n)

\* The if chain on the bearing: the compass octant.
Direction(bearing) ==
  LET s == Sector16(bearing)
  IN IF s >= 15 \/ s < 1 THEN "N"
     ELSE IF s >= 1 /\ s < 3 THEN "NE"
     ELSE IF s >= 3 /\ s < 5 THEN "E"
     ELSE IF s >= 5 /\ s < 7 THEN "SE"
     ELSE IF s >= 7 /\ s < 9 THEN "S"
     ELSE IF s >= 9 /\ s < 11 THEN "SW"
     ELSE IF s >= 11 /\ s < 13 THEN "W"
     ELSE "NW"

\* The primary direction a reassigned candidate gets: the compass quadrant.
NewDirection(bearing) ==
  LET s == Sector16(bearing)
  IN IF s >= 14 \/ s < 2 THEN "N"
     ELSE IF s >= 2 /\ s < 6 THEN "E"
     ELSE IF s >= 6 /\ s < 10 THEN "S"
     ELSE "W"

\* The region closest to the country centre: the first one at the least distance.
RECURSIVE CenterRegionFrom(_, _, _, _, _)
CenterRegionFrom(centers, countryCenter, k, best, minDistToCenter) ==
  IF k > Len(centers) THEN best
  ELSE LET dist == haversineDistance(centers[k], countryCenter)
       IN IF DistLess(dist, minDistToCenter)
          THEN CenterRegionFrom(centers, countryCenter, k + 1, k, dist)
          ELSE CenterRegionFrom(centers, countryCenter, k + 1, best, minDistToCenter)

\* directions.push({ region, direction, bearing, distance }) for every region
\* but the centre region.
RECURSIVE DirectionItems(_, _, _, _)
DirectionItems(centers, countryCenter, centerRegion, k) ==
  IF k > Len(centers) THEN <<>>
  ELSE (IF k = centerRegion THEN <<>>
        ELSE LET bearing == calculateBearing(countryCenter, centers[k])
             IN <<[region |-> k,
                   direction |-> Direction(bearing),
                   bearing |-> bearing,
                   distance |-> haversineDistance(centers[k], countryCenter)]>>)
       \o DirectionItems(centers, countryCenter, centerRegion, k + 1)

\* An insertion that keeps the order of arrival: no sorting by distance.
InsertByDistance_Unsorted(sorted, item) == Append(sorted, item)

\* sort((a, b) => a.distance - b.distance), stable.
RECURSIVE InsertByDistance(_, _)
InsertByDistance(sorted, item) ==
  IF sorted = <<>> THEN <<item>>
  ELSE IF ~DistLess(item.distance, Head(sorted).distance)
       THEN <<Head(sorted)>> \o InsertByDistance(Tail(sorted), item)
       ELSE <<item>> \o sorted

RECURSIVE SortByDistance(_)
SortByDistance(items) ==
  IF items = <<>> THEN <<>>
  ELSE InsertByDistance(SortByDistance(SubSeq(items, 1, Len(items) - 1)), items[Len(items)])

\* directions.find(item => item.direction === d): its position, 0 for undefined.
FindDirection(directions, d) ==
  IF \E j \in 1..Len(directions) : directions[j].direction = d
  THEN SetMin({j \in 1..Len(directions) : directions[j].direction = d})
  ELSE 0

\* What one if (primaryDirections[...] === null) block pushes, for the two
\* intercardinal directions beside the empty primary one.
Candidate(directions, d1, d2) ==
  LET c1 == FindDirection(directions, d1)
      c2 == FindDirection(directions, d2)
  IN IF c1 # 0 /\ c2 # 0
     THEN <<IF DistLess(directions[c1].distance, directions[c2].distance) THEN c1 ELSE c2>>
     ELSE IF c1 # 0 THEN <<c1>>
     ELSE IF c2 # 0 THEN <<c2>>
     ELSE <<>>

\* The primary directions that hold a region: primaryDirections[d] !== null.
PrimaryTaken(directions) ==
  {d \in {"N", "E", "S", "W"} : \E j \in 1..Len(directions) : directions[j].direction = d}

ReassignCandidates(directions) ==
  LET taken == PrimaryTaken(directions)
  IN (IF "N" \notin taken THEN Candidate(directions, "NE", "NW") ELSE <<>>)
     \o (IF "E" \notin taken THEN Candidate(directions, "NE", "SE") ELSE <<>>)
     \o (IF "S" \notin taken THEN Candidate(directions, "SE", "SW") ELSE <<>>)
     \o (IF "W" \notin taken THEN Candidate(directions, "SW", "NW") ELSE <<>>)

\* reassignCandidates.sort((a, b) => a.distance - b.distance), stable; the
\* candidates are positions in directions.
RECURSIVE InsertCandidate(_, _, _)
InsertCandidate(directions, sorted, c) ==
  IF sorted = <<>> THEN <<c>>
  ELSE IF ~DistLess(directions[c].distance, directions[Head(sorted)].distance)
       THEN <<Head(sorted)>> \o InsertCandidate(directions, Tail(sorted), c)
       ELSE <<c>> \o sorted

RECURSIVE SortCandidates(_, _)
SortCandidates(directions, cands) ==
  IF cands = <<>> THEN <<>>
  ELSE InsertCandidate(directions,
                       SortCandidates(directions, SubSeq(cands, 1, Len(cands) - 1)),
                       cands[Len(cands)])

\* A reassignment without the test for an empty primary direction.
RECURSIVE Reassign_Always(_, _, _)
Reassign_Always(directions, cands, taken) ==
  IF cands = <<>> THEN directions
  ELSE LET c == Head(cands)
       IN Reassign_Always([directions EXCEPT ![c].direction = NewDirection(directions[c].bearing)],
                          Tail(cands), taken)

\* reassignCandidates.forEach(...): a candidate moves to the primary direction
\* of its quadrant if that direction is still empty.
RECURSIVE Reassign(_, _, _)
Reassign(directions, cands, taken) ==
  IF cands = <<>> THEN directions
  ELSE LET c == Head(cands)
           newDirection == NewDirection(directions[c].bearing)
       IN IF newDirection \notin taken
          THEN Reassign([directions EXCEPT ![c].direction = newDirection],
                        Tail(cands), taken \cup {newDirection})
          ELSE Reassign(directions, Tail(cands), taken)

\* A numbering that gives every region of a direction the number 1.
DirectionIdOf_NoRank(directions, j) == [dir |-> directions[j].direction, num |-> 1]

\* `${direction}${index + 1}` within the group of the item's direction; the
\* groups keep the order of directions, which is by distance already.
DirectionIdOf(directions, j) ==
  [dir |-> directions[j].direction,
   num |-> Cardinality({i \in 1..j : directions[i].direction = directions[j].direction})]

\* The directions array after the reassignments.
FinalDirections(centers) ==
  LET countryCenter == CountryCenter(centers)
      centerRegion == CenterRegionFrom(centers, countryCenter, 1, 0, Infinity)
      directions == SortByDistance(DirectionItems(centers, countryCenter, centerRegion, 1))
  IN Reassign(directions,
              SortCandidates(directions, ReassignCandidates(directions)),
              PrimaryTaken(directions))

\* A copy that reads clusterID after it was overwritten.
LabelledFeatures_CopyAfter(fs) ==
  LET centers == [k \in 1..Len(fs) |-> fs[k].center]
      centerRegion == CenterRegionFrom(centers, CountryCenter(centers), 1, 0, Infinity)
      directions == FinalDirections(centers)
      idOf(k) == IF k = centerRegion THEN [dir |-> "C", num |-> 0]
                 ELSE LET j == CHOOSE i \in 1..Len(directions) : directions[i].region = k
                      IN DirectionIdOf(directions, j)
  IN [k \in 1..Len(fs) |->
        [fs[k] EXCEPT !.directionId = idOf(k),
                      !.originalClusterID = idOf(k),
                      !.clusterID = idOf(k)]]

\* The features with directionId set and copied to clusterID.
LabelledFeatures(fs) ==
  LET centers == [k \in 1..Len(fs) |-> fs[k].center]
      centerRegion == CenterRegionFrom(centers, CountryCenter(centers), 1, 0, Infinity)
      directions == FinalDirections(centers)
      idOf(k) == IF k = centerRegion THEN [dir |-> "C", num |-> 0]
                 ELSE LET j == CHOOSE i \in 1..Len(directions) : directions[i].region = k
                      IN DirectionIdOf(directions, j)
  IN [k \in 1..Len(fs) |->
        [fs[k] EXCEPT !.directionId = idOf(k),
                      !.originalClusterID = fs[k].clusterID,
                      !.clusterID = idOf(k)]]

\* Where the run goes when assignDirectionalIds returns.
AfterLabel == IF entry = "processCountryData" THEN "save" ELSE "done"

\* The whole function: it returns at once on null or on an empty collection.
AssignDirectionalIds ==
  /\ pc = "label"
  /\ regionPolygons' =
       IF regionPolygons.null \/ regionPolygons.features = <<>>
       THEN regionPolygons
       ELSE [regionPolygons EXCEPT !.features = LabelledFeatures(@)]
  /\ pc' = AfterLabel
  /\ UNCHANGED <<entry, features, targetCount, dbscanVars, clusters, round, input,
                 firstResult, hullLog, inputCount, extVars>>

(***************************************************************************)
(* createRegions(points, targetRegions, options, countryId): its steps 1   *)
(* and 2; steps 3 to 6 are the functions above, in turn.                   *)
(***************************************************************************)
\* The collections simplifyPoints(points, targetCount) can return for a
\* collection above the threshold: a random sample, one point per non-empty
\* grid cell or the first targetCount of a shuffle, so some sub-collection
\* with at least one point and fewer points than it was given.
RECURSIVE Pick(_, _, _)
Pick(fs, kept, k) ==
  IF k > Len(fs) THEN <<>>
  ELSE (IF k \in kept THEN <<fs[k]>> ELSE <<>>) \o Pick(fs, kept, k + 1)

simplifyPoints(fs) ==
  {Pick(fs, kept, 1) : kept \in (SUBSET (1..Len(fs))) \ {{}, 1..Len(fs)}}

\* workingPoints
WorkingPoints(fs) ==
  IF Len(fs) > SimplifyThreshold THEN simplifyPoints(fs) ELSE {fs}

\* turf.area(turf.bboxPolygon(turf.bbox(workingPoints))), in grid cells.
BboxArea(fs) ==
  LET lngs == {fs[k].lng : k \in 1..Len(fs)}
      lats == {fs[k].lat : k \in 1..Len(fs)}
  IN IF fs = <<>> THEN 0
     ELSE (SetMax(lngs) - SetMin(lngs)) * (SetMax(lats) - SetMin(lats))

\* maxDistance = Math.sqrt(areaInSqKm / targetRegions) / 2, squared.
ClusteringDistance(fs, targetRegions) ==
  [num |-> BboxArea(fs), den |-> 4 * targetRegions]

CreateRegionsEnter ==
  /\ pc = "createRegions"
  /\ \E workingPoints \in WorkingPoints(features) :
       /\ features' = workingPoints
       /\ maxDistance' = ClusteringDistance(workingPoints, targetCount)
  /\ minPoints' = DefaultMinPoints
  /\ idx' = 1
  /\ pc' = "dbscan"
  /\ UNCHANGED <<entry, targetCount, visited, clustered, clusters, round, input,
                 firstResult, outVars, extVars>>

(***************************************************************************)
(* convertToGeoJSON(rawData).                                              *)
(*                                                                         *)
(* A JSON value is kept as its typeof and, for a number, its value.  A     *)
(* record is { lat, lng, extra }, extra being absent or { tags }, tags an  *)
(* array of strings.                                                       *)
(***************************************************************************)
Num(v) == [type |-> "number", val |-> v]
NotNum(t) == [type |-> t, val |-> 0]

\* The tags of the model and the year tag.match(/^(\d{4})/) finds in each.
LeadingYear(tag) ==
  CASE tag = "2019-07" -> <<2019>>
    [] tag = "2013-06" -> <<2013>>
    [] OTHER -> <<>>

\* coord.extra.tags.map(...).filter(year => year !== null)
RECURSIVE YearsOf(_)
YearsOf(tags) ==
  IF tags = <<>> THEN <<>> ELSE LeadingYear(Head(tags)) \o YearsOf(Tail(tags))

\* years.length > 0 ? Math.max(...years) : null, null kept as NoYear
NoYear == 0
LatestYear(years) ==
  IF Len(years) > 0 THEN SetMax({years[k] : k \in 1..Len(years)}) ELSE NoYear

\* A validation that looks at lat only.
InvalidCoordinates_LatOnly(coord) == coord.lat.type # "number"

\* typeof coord.lat !== 'number' || typeof coord.lng !== 'number'
InvalidCoordinates(coord) == coord.lat.type # "number" \/ coord.lng.type # "number"

\* The feature the map callback returns for a record with valid coordinates.
PointFeature(coord) ==
  LET years == IF coord.extra.present THEN YearsOf(coord.extra.tags) ELSE <<>>
  IN [lng |-> coord.lng.val,
      lat |-> coord.lat.val,
      tags |-> IF coord.extra.present THEN coord.extra.tags ELSE <<>>,
      years |-> years,
      latestYear |-> LatestYear(years)]

\* customCoordinates.map(...).filter(feature => feature !== null)
RECURSIVE ConvertRecords(_)
ConvertRecords(coords) ==
  IF coords = <<>> THEN <<>>
  ELSE (IF InvalidCoordinates(Head(coords)) THEN <<>> ELSE <<PointFeature(Head(coords))>>)
       \o ConvertRecords(Tail(coords))

\* The console.warn calls of one conversion.
RECURSIVE WarnedRecords(_)
WarnedRecords(coords) ==
  IF coords = <<>> THEN 0
  ELSE (IF InvalidCoordinates(Head(coords)) THEN 1 ELSE 0) + WarnedRecords(Tail(coords))

\* Where the run goes when convertToGeoJSON returns.
AfterConvert == IF entry = "convertToGeoJSON" THEN "done" ELSE "createRegions"

ConvertToGeoJSON ==
  /\ pc = "convert"
  /\ IF rawData.type = "FeatureCollection"
     THEN /\ features' = rawData.features
          /\ dropped' = dropped
     ELSE /\ features' = ConvertRecords(rawData.customCoordinates)
          /\ dropped' = WarnedRecords(rawData.customCoordinates)
  /\ inputCount' = Len(features')
  /\ pc' = AfterConvert
  /\ UNCHANGED <<entry, targetCount, maxDistance, minPoints, idx, visited, clustered,
                 clusters, round, input, firstResult, regionPolygons, hullLog, rawData,
                 written, aroundVars>>

\* The caller calls createRegions once more with the same points,
\* targetRegions and options; what the first call returned is kept for
\* comparison.  (features is the points argument: below SimplifyThreshold
\* points the working points are the argument itself.)
Rerun ==
  /\ pc = "done"
  /\ entry = "createRegions"
  /\ firstRegions = <<>>
  /\ firstRegions' = <<[regions |-> regionPolygons, hullLog |-> hullLog]>>
  /\ pc' = "createRegions"
  /\ maxDistance' = [num |-> 0, den |-> 1]
  /\ minPoints' = DefaultMinPoints
  /\ idx' = 1
  /\ visited' = {}
  /\ clustered' = {}
  /\ clusters' = <<>>
  /\ input' = <<>>
  /\ regionPolygons' = [null |-> FALSE, features |-> <<>>]
  /\ hullLog' = <<>>
  /\ UNCHANGED <<entry, features, targetCount, round, firstResult, inputCount, rawData,
                 dropped, written, countryId, cities, regionName, options, koppen,
                 allocVars, yearVars>>

\* null
Null == ""

(***************************************************************************)
(* The climate classification: getClimateCode(lat, lng, resolution) reads  *)
(* the pixel of the Koppen-Geiger raster at the coordinate.  The raster of *)
(* the model has one pixel value for each longitude.                       *)
(***************************************************************************)
NoData == 0
PixelLngs == {c.lng : c \in PointCoordinates}

\* CLIMATE_CODES[value].code, for the values of the model's rasters.
ClimateCode(value) ==
  CASE value = 7 -> "BSk"
    [] value = 26 -> "Dfb"
    [] OTHER -> Null

\* getClimateCode: null if the pixel holds no data, or no valid value.
getClimateCode(point) ==
  LET value == koppen[point.lng]
  IN IF value <= 0 \/ value > MaxClimateValue THEN Null ELSE ClimateCode(value)

\* const opts = { useKoppen: true, koppenResolution: '0p5', ...options }
DefaultOptions == [useKoppen |-> TRUE, koppenResolution |-> "0p5"]

\* polygon.properties = { clusterID, pointCount, yearTags, regionName }: the
\* region has no property for a climate zone.
ClimateZoneOf(feature) == Null

(***************************************************************************)
(* The zone allocator of the climate-aware mode.  A zone is [tenths,       *)
(* points, quota]: its share of all points in tenths, its number of points *)
(* and the number of regions it is to get.  targetCount is targetRegions.  *)
(***************************************************************************)
\* (tenths / 10) ^ 0.7, in thousandths.
Pow07(tenths) ==
  CASE tenths = 1 -> 200
    [] tenths = 2 -> 324
    [] tenths = 3 -> 431
    [] tenths = 4 -> 527
    [] tenths = 5 -> 616
    [] tenths = 6 -> 699
    [] tenths = 7 -> 779
    [] tenths = 8 -> 855
    [] tenths = 9 -> 929
    [] OTHER -> 1000

\* score = percentage_of_total_points ^ 0.7 * 100
Score(zone) == Pow07(zone.tenths) * ScoreFactor

RECURSIVE TotalScore(_)
TotalScore(zs) == IF zs = <<>> THEN 0 ELSE Score(Head(zs)) + TotalScore(Tail(zs))

\* round(num / den), halves rounded up.
Round(num, den) == (2 * num + den) \div (2 * den)

\* A cap that rounds the density down.
DensityCap_RoundedDown(zone) == zone.points \div PointsPerRegion

\* ceil(zonePoints / 30)
DensityCap(zone) == (zone.points + PointsPerRegion - 1) \div PointsPerRegion

\* round(score / totalScore * targetRegions), floored at 1 and capped.
InitialQuota(zone, totalScore, target) ==
  LET rounded == Round(Score(zone) * target, totalScore)
      floored == IF rounded < 1 THEN 1 ELSE rounded
  IN IF floored > DensityCap(zone) THEN DensityCap(zone) ELSE floored

RECURSIVE QuotaSum(_)
QuotaSum(zs) == IF zs = <<>> THEN 0 ELSE Head(zs).quota + QuotaSum(Tail(zs))

\* A zone that gives up its last region.
CanShed_LastRegion(zone) == zone.quota > 0

\* A region may be taken from the zone: never below 1.
CanShed(zone) == zone.quota > 1

\* A region may be added to the zone: never past its density cap.
CanAbsorb(zone) == zone.quota < DensityCap(zone)

\* The zones with the most points among those that can take a region.
Absorbers(zs) ==
  LET able == {k \in 1..Len(zs) : CanAbsorb(zs[k])}
  IN {k \in able : \A j \in able : zs[k].points >= zs[j].points}

\* The zones with the fewest points among those that can give up a region.
Shedders(zs) ==
  LET able == {k \in 1..Len(zs) : CanShed(zs[k])}
  IN {k \in able : \A j \in able : zs[k].points <= zs[j].points}

\* The initial quota of every zone.
AllocateQuotas ==
  /\ pc = "allocate"
  /\ zones' = [k \in 1..Len(zones) |->
                 [zones[k] EXCEPT !.quota = InitialQuota(zones[k], TotalScore(zones),
                                                         targetCount)]]
  /\ loopCount' = 0
  /\ pc' = "reconcile"
  /\ UNCHANGED <<entry, regionVars, rawData, dropped, written, countryId, cities,
                 regionName, firstRegions, options, koppen, warning, yearVars>>

\* One iteration of the reconciliation loop, or its exit: on target, out of
\* iterations, or with no zone left that can take or give up a region.
ReconcileStep ==
  /\ pc = "reconcile"
  /\ LET sum == QuotaSum(zones)
         movers == IF sum < targetCount THEN Absorbers(zones) ELSE Shedders(zones)
         step == IF sum < targetCount THEN 1 ELSE -1
     IN IF sum = targetCount
        THEN /\ pc' = "done"
             /\ UNCHANGED <<zones, loopCount, warning>>
        ELSE IF loopCount >= Len(zones) \/ movers = {}
             THEN /\ warning' = TRUE
                  /\ pc' = "done"
                  /\ UNCHANGED <<zones, loopCount>>
             ELSE /\ \E k \in movers : zones' = [zones EXCEPT ![k].quota = @ + step]
                  /\ loopCount' = loopCount + 1
                  /\ pc' = "reconcile"
                  /\ UNCHANGED warning
  /\ UNCHANGED <<entry, regionVars, rawData, dropped, written, countryId, cities,
                 regionName, firstRegions, options, koppen, yearVars>>

(***************************************************************************)
(* getCountryCode(countryId) and findCitiesInRegion(polygon, countryCode). *)
(*                                                                         *)
(* null is kept as the empty string.  A city is [name, countryCode,        *)
(* population, inside], inside being what turf.booleanPointInPolygon gives *)
(* for the city and the region's polygon: "in", "out", or "throws".        *)
(***************************************************************************)

\* countryId.toLowerCase(), on the identifiers of the model.
ToLowerCase(id) == IF id = "Russia" THEN "russia" ELSE id

\* countryCode.toUpperCase(); the codes of the mapping are upper case.
ToUpperCase(code) == code

\* countryMapping[...] || null: of the 20 entries, those of the model's identifiers.
getCountryCode(id) ==
  IF id = Null THEN Null
  ELSE CASE ToLowerCase(id) = "russia" -> "RU"
         [] ToLowerCase(id) = "usa" -> "US"
         [] OTHER -> Null

\* cities.filter(city => city.countryCode === countryCode.toUpperCase())
RECURSIVE FilterByCountry(_, _)
FilterByCountry(cs, countryCode) ==
  IF cs = <<>> THEN <<>>
  ELSE (IF Head(cs).countryCode = ToUpperCase(countryCode) THEN <<Head(cs)>> ELSE <<>>)
       \o FilterByCountry(Tail(cs), countryCode)

\* The for loop: the cities turf.booleanPointInPolygon accepts; a city the
\* call throws for is skipped.
RECURSIVE CitiesInRegion(_)
CitiesInRegion(cs) ==
  IF cs = <<>> THEN <<>>
  ELSE (IF Head(cs).inside = "in" THEN <<Head(cs)>> ELSE <<>>) \o CitiesInRegion(Tail(cs))

\* citiesInRegion.sort((a, b) => b.population - a.population), stable.
RECURSIVE InsertByPopulation(_, _)
InsertByPopulation(sorted, city) ==
  IF sorted = <<>> THEN <<city>>
  ELSE IF Head(sorted).population >= city.population
       THEN <<Head(sorted)>> \o InsertByPopulation(Tail(sorted), city)
       ELSE <<city>> \o sorted

RECURSIVE SortByPopulation(_)
SortByPopulation(cs) ==
  IF cs = <<>> THEN <<>>
  ELSE InsertByPopulation(SortByPopulation(SubSeq(cs, 1, Len(cs) - 1)), cs[Len(cs)])

\* topCities.length > 1 && primaryCity.population < topCities[1].population * 3
ShowSecondary(topCities) ==
  Len(topCities) > 1 /\ topCities[1].population < topCities[2].population * PopulationRatio

\* { regionName: null }
NoRegionName == [null |-> TRUE, primary |-> Null, secondary |-> Null, displayName |-> <<>>]

\* The displayName "A / B" is kept as <<A, B>>, the displayName "A" as <<A>>.
findCitiesInRegion(allCities, countryCode) ==
  IF Len(allCities) = 0 THEN NoRegionName
  ELSE LET countryCities == IF countryCode # Null
                            THEN FilterByCountry(allCities, countryCode)
                            ELSE allCities
           citiesInRegion == SortByPopulation(CitiesInRegion(countryCities))
           topCities == SubSeq(citiesInRegion, 1, IF Len(citiesInRegion) < 2
                                                  THEN Len(citiesInRegion) ELSE 2)
       IN IF Len(citiesInRegion) = 0 THEN NoRegionName
          ELSE IF ShowSecondary(topCities)
               THEN [null |-> FALSE,
                     primary |-> topCities[1].name,
                     secondary |-> topCities[2].name,
                     displayName |-> <<topCities[1].name, topCities[2].name>>]
               ELSE [null |-> FALSE,
                     primary |-> topCities[1].name,
                     secondary |-> Null,
                     displayName |-> <<topCities[1].name>>]

\* const { regionName } = findCitiesInRegion(polygon, countryCode), with the
\* countryCode clustersToPolygons got from getCountryCode(countryId).
FindCities ==
  /\ pc = "cities"
  /\ regionName' = findCitiesInRegion(cities, getCountryCode(countryId))
  /\ pc' = "done"
  /\ UNCHANGED <<entry, regionVars, rawData, dropped, written, countryId, cities,
                 firstRegions, options, koppen, allocVars, yearVars>>

(***************************************************************************)
(* getFrequentYears(points).  A point is kept as its properties.years, the *)
(* years of its tags in their order (none when the point has no            *)
(* properties or no years).  Years are the integers convertToGeoJSON       *)
(* parses from the first four digits of a tag, so the key of a year in     *)
(* yearCounts is its decimal form and parseInt gives the year back.        *)
(***************************************************************************)
\* yearCounts[year] after the forEach: how often the year occurs in all.
RECURSIVE CountIn(_, _)
CountIn(years, year) ==
  IF years = <<>> THEN 0
  ELSE (IF Head(years) = year THEN 1 ELSE 0) + CountIn(Tail(years), year)

RECURSIVE yearCounts(_, _)
yearCounts(points, year) ==
  IF points = <<>> THEN 0
  ELSE CountIn(Head(points), year) + yearCounts(Tail(points), year)

\* The keys of yearCounts.
CountedYears(points) ==
  UNION {{points[k][t] : t \in 1..Len(points[k])} : k \in 1..Len(points)}

\* Object.entries(yearCounts): integer keys come in ascending order.
RECURSIVE EntriesOf(_, _)
EntriesOf(points, keys) ==
  IF keys = {} THEN <<>>
  ELSE LET year == SetMin(keys)
       IN <<[year |-> year, count |-> yearCounts(points, year)]>>
          \o EntriesOf(points, keys \ {year})

\* A sort by frequency that puts the rarest year first.
RECURSIVE InsertByCount_Ascending(_, _)
InsertByCount_Ascending(sorted, item) ==
  IF sorted = <<>> THEN <<item>>
  ELSE IF Head(sorted).count <= item.count
       THEN <<Head(sorted)>> \o InsertByCount_Ascending(Tail(sorted), item)
       ELSE <<item>> \o sorted

\* .sort((a, b) => b[1] - a[1]), stable.
RECURSIVE InsertByCount(_, _)
InsertByCount(sorted, item) ==
  IF sorted = <<>> THEN <<item>>
  ELSE IF Head(sorted).count >= item.count
       THEN <<Head(sorted)>> \o InsertByCount(Tail(sorted), item)
       ELSE <<item>> \o sorted

RECURSIVE SortByCount(_)
SortByCount(entries) ==
  IF entries = <<>> THEN <<>>
  ELSE InsertByCount(SortByCount(SubSeq(entries, 1, Len(entries) - 1)), entries[Len(entries)])

\* .slice(0, 3)
Slice(entries, n) == SubSeq(entries, 1, IF Len(entries) < n THEN Len(entries) ELSE n)

getFrequentYears(points) ==
  Slice(SortByCount(EntriesOf(points, CountedYears(points))), TopYears)

\* The whole function.
TagYears ==
  /\ pc = "years"
  /\ yearTags' = getFrequentYears(pointYears)
  /\ pc' = "done"
  /\ UNCHANGED <<entry, regionVars, rawData, dropped, written, countryId, cities,
                 regionName, firstRegions, options, koppen, allocVars, pointYears>>

\* No year tagging takes part in the run.
YearsIdle ==
  /\ pointYears = <<>>
  /\ yearTags = <<>>

\* The options processCountryData passes on when it is called with none,
\* and a raster without data.
KoppenIdle ==
  /\ options = DefaultOptions
  /\ koppen = [lng \in PixelLngs |-> NoData]

\* No zone allocation has started.
AllocatorIdle ==
  /\ zones = <<>>
  /\ loopCount = 0
  /\ warning = FALSE

\* The region naming takes no part in the run: no gazetteer is loaded.
CitiesIdle ==
  /\ countryId = Null
  /\ cities = <<>>
  /\ regionName = NoRegionName

\* Nothing around the pipeline takes part in the run.
AroundIdle ==
  /\ CitiesIdle
  /\ firstRegions = <<>>
  /\ KoppenIdle
  /\ AllocatorIdle
  /\ YearsIdle

(***************************************************************************)
(* processCountryData(countryId, targetRegions, options): reading the data *)
(* file and writing the regions file; the steps between are                *)
(* convertToGeoJSON and createRegions.  The catch block logs the error and *)
(* throws it again, so an exception of any step leaves the function.       *)
(***************************************************************************)
\* The data files of the processCountryData runs: records on the grid of
\* the balancing runs, or with a lat or a lng that is not a number.
ProcessRecords ==
  [lat : {Num(0), Num(1), NotNum("string")},
   lng : {Num(0), Num(1), NotNum("undefined")},
   extra : {[present |-> FALSE, tags |-> <<>>]}]

ProcessFiles ==
  {[type |-> "raw", customCoordinates |-> cs] :
     cs \in UNION {[1..n -> ProcessRecords] : n \in 0..MaxRecords}}

\* fs.readFileSync and JSON.parse: they give the parsed file or throw.
LoadData ==
  /\ pc = "load"
  /\ \/ /\ rawData' \in ProcessFiles
        /\ pc' = "convert"
     \/ /\ rawData' = rawData
        /\ pc' = "thrown"
  /\ UNCHANGED <<entry, regionVars, dropped, written, aroundVars>>

\* JSON.stringify(regions, null, 2)
Stringify(regions) == IF regions.null THEN "null" ELSE "FeatureCollection"

\* fs.writeFileSync, the log line that reads regions.features.length, return.
SaveRegions ==
  /\ pc = "save"
  /\ \/ /\ written' = Append(written, Stringify(regionPolygons))
        /\ pc' = IF regionPolygons.null THEN "thrown" ELSE "done"
     \/ /\ written' = written
        /\ pc' = "thrown"
  /\ UNCHANGED <<entry, regionVars, rawData, dropped, aroundVars>>

\* The steps around the region construction take no part in the run.
ExtIdle ==
  /\ rawData = [type |-> "raw", customCoordinates |-> <<>>]
  /\ dropped = 0
  /\ written = <<>>
  /\ AroundIdle

(***************************************************************************)
(* adjustClusterCount on an arbitrary cluster array: any partition of the  *)
(* points into at most MaxClusters non-empty clusters, in any order of     *)
(* clusters.  Points are numbered in coordinate order, and points with the *)
(* same coordinates are dealt to the clusters in the clusters' order; this *)
(* loses no behaviour, since the function treats points alike.             *)
(***************************************************************************)
PointLeq(p, q) == p.lng < q.lng \/ (p.lng = q.lng /\ p.lat <= q.lat)

SortedFeatures(n) ==
  {f \in [1..n -> Coordinates] : \A a \in 1..n, b \in 1..n : a < b => PointLeq(f[a], f[b])}

RECURSIVE MembersOf(_, _, _, _)
MembersOf(assign, c, k, n) ==
  IF k > n THEN <<>>
  ELSE (IF assign[k] = c THEN <<k>> ELSE <<>>) \o MembersOf(assign, c, k + 1, n)

ClusterArray(assign, n, m) ==
  [c \in 1..m |->
     LET points == MembersOf(assign, c, 1, n)
     IN [id |-> c - 1, points |-> points, size |-> Len(points)]]

\* The ways to deal the points of f to m clusters, none left empty.
Dealings(f, n, m) ==
  {assign \in [1..n -> 1..m] :
     /\ \A c \in 1..m : \E k \in 1..n : assign[k] = c
     /\ \A a \in 1..n, b \in 1..n : (a < b /\ f[a] = f[b]) => assign[a] <= assign[b]}

InitAdjust ==
  \E n \in 1..MaxPoints, m \in 1..MaxClusters :
    \E f \in SortedFeatures(n) :
      \E assign \in Dealings(f, n, m) :
        /\ features = f
        /\ clusters = ClusterArray(assign, n, m)
        /\ input = ClusterArray(assign, n, m)
        /\ targetCount \in 1..MaxTarget
        /\ entry = "adjustClusterCount"
        /\ pc = "adjust"
        /\ round = 1
        /\ firstResult = <<>>
        /\ maxDistance = [num |-> 0, den |-> 1]
        /\ minPoints = DefaultMinPoints
        /\ idx = 0
        /\ visited = {}
        /\ clustered = {}
        /\ regionPolygons = [null |-> FALSE, features |-> <<>>]
        /\ hullLog = <<>>
        /\ inputCount = 0
        /\ ExtIdle

NextAdjust == AdjustSort \/ MergeStep \/ SplitStep \/ Renumber \/ Reapply

SpecAdjust == InitAdjust /\ [][NextAdjust]_vars

(***************************************************************************)
(* performDBSCANClustering on an arbitrary point collection.               *)
(***************************************************************************)
InitDbscan ==
  \E n \in 0..MaxDbscanPoints :
    /\ features \in [1..n -> DbscanCoordinates]
    /\ maxDistance \in Radii
    /\ minPoints \in 1..DefaultMinPoints
    /\ entry = "performDBSCANClustering"
    /\ pc = "dbscan"
    /\ idx = 1
    /\ visited = {}
    /\ clustered = {}
    /\ clusters = <<>>
    /\ targetCount = 1
    /\ round = 0
    /\ input = <<>>
    /\ firstResult = <<>>
    /\ regionPolygons = [null |-> FALSE, features |-> <<>>]
    /\ hullLog = <<>>
    /\ inputCount = 0
    /\ ExtIdle

NextDbscan == DbscanVisit \/ DbscanToNoise \/ DbscanNoise \/ DbscanReturn

SpecDbscan == InitDbscan /\ [][NextDbscan]_vars

(***************************************************************************)
(* createRegions on an arbitrary point collection, the points listed in    *)
(* coordinate order.                                                       *)
(***************************************************************************)
RECURSIVE SortedPoints(_)
SortedPoints(n) ==
  IF n = 0 THEN {<<>>}
  ELSE UNION {{Append(f, c) : c \in {d \in PointCoordinates :
                                       f = <<>> \/ PointLeq(f[Len(f)], d)}} :
              f \in SortedPoints(n - 1)}

InitRegions ==
  \E n \in 0..MaxRegionPoints :
    /\ features \in SortedPoints(n)
    /\ inputCount = n
    /\ targetCount \in 1..MaxTarget
    /\ entry = "createRegions"
    /\ pc = "createRegions"
    /\ maxDistance = [num |-> 0, den |-> 1]
    /\ minPoints = DefaultMinPoints
    /\ idx = 1
    /\ visited = {}
    /\ clustered = {}
    /\ clusters = <<>>
    /\ round = 1
    /\ input = <<>>
    /\ firstResult = <<>>
    /\ regionPolygons = [null |-> FALSE, features |-> <<>>]
    /\ hullLog = <<>>
    /\ ExtIdle

NextRegions ==
  \/ CreateRegionsEnter
  \/ DbscanVisit
  \/ DbscanToNoise
  \/ DbscanNoise
  \/ DbscanReturn
  \/ AdjustSort
  \/ MergeStep
  \/ SplitStep
  \/ Renumber
  \/ PolygonStep
  \/ PolygonsReturn
  \/ AssignDirectionalIds

SpecRegions == InitRegions /\ [][NextRegions]_vars

(***************************************************************************)
(* assignDirectionalIds on an arbitrary region collection (or on null):    *)
(* regions with any centres, in any order.                                 *)
(***************************************************************************)
RegionAt(k, c) ==
  [clusterID |-> NumId(k - 1),
   pointCount |-> MinHullPoints + k,
   yearTags |-> <<[year |-> k, count |-> MinHullPoints]>>,
   regionName |-> IF k % 2 = 1 THEN Null ELSE "A",
   hull |-> "convex",
   center |-> PointLoc(c),
   directionId |-> Unset,
   originalClusterID |-> Unset]

InitLabel ==
  /\ \E n \in 0..MaxRegions, isNull \in BOOLEAN :
       \E centers \in [1..n -> CenterCoordinates] :
         /\ isNull => n = 0
         /\ regionPolygons = [null |-> isNull,
                              features |-> [k \in 1..n |-> RegionAt(k, centers[k])]]
  /\ entry = "assignDirectionalIds"
  /\ pc = "label"
  /\ features = <<>>
  /\ inputCount = 0
  /\ targetCount = 1
  /\ maxDistance = [num |-> 0, den |-> 1]
  /\ minPoints = DefaultMinPoints
  /\ idx = 1
  /\ visited = {}
  /\ clustered = {}
  /\ clusters = <<>>
  /\ round = 0
  /\ input = <<>>
  /\ firstResult = <<>>
  /\ hullLog = <<>>
  /\ ExtIdle

NextLabel == AssignDirectionalIds

SpecLabel == InitLabel /\ [][NextLabel]_vars

(***************************************************************************)
(* convertToGeoJSON on an arbitrary data file: raw records whose lat and   *)
(* lng are numbers or not, with or without tags, or a FeatureCollection.   *)
(***************************************************************************)
RawLats == {Num(0), Num(1), NotNum("string")}
RawLngs == {Num(0), NotNum("undefined")}
RawExtras ==
  {[present |-> FALSE, tags |-> <<>>],
   [present |-> TRUE, tags |-> <<"2019-07", "2013-06">>],
   [present |-> TRUE, tags |-> <<"undated">>]}
RawRecords == [lat : RawLats, lng : RawLngs, extra : RawExtras]

RawFiles ==
  {[type |-> "raw", customCoordinates |-> cs] :
     cs \in UNION {[1..n -> RawRecords] : n \in 0..MaxRecords}}

FeatureFiles ==
  {[type |-> "FeatureCollection", features |-> fs] :
     fs \in UNION {SortedFeatures(n) : n \in 0..MaxRecords}}

\* The state of the pipeline before a call of createRegions.
RegionsRest ==
  /\ maxDistance = [num |-> 0, den |-> 1]
  /\ minPoints = DefaultMinPoints
  /\ idx = 1
  /\ visited = {}
  /\ clustered = {}
  /\ clusters = <<>>
  /\ round = 1
  /\ input = <<>>
  /\ firstResult = <<>>
  /\ regionPolygons = [null |-> FALSE, features |-> <<>>]
  /\ hullLog = <<>>

\* The region construction has not started.
RegionsIdle ==
  /\ features = <<>>
  /\ inputCount = 0
  /\ RegionsRest

InitConvert ==
  /\ rawData \in RawFiles \cup FeatureFiles
  /\ dropped = 0
  /\ written = <<>>
  /\ AroundIdle
  /\ entry = "convertToGeoJSON"
  /\ pc = "convert"
  /\ targetCount = 1
  /\ RegionsIdle

NextConvert == ConvertToGeoJSON

SpecConvert == InitConvert /\ [][NextConvert]_vars

(***************************************************************************)
(* processCountryData on an arbitrary data file.                           *)
(***************************************************************************)
InitProcess ==
  /\ rawData = [type |-> "unread"]
  /\ dropped = 0
  /\ written = <<>>
  /\ AroundIdle
  /\ entry = "processCountryData"
  /\ pc = "load"
  /\ targetCount \in 1..MaxTarget
  /\ RegionsIdle

NextProcess ==
  \/ LoadData
  \/ ConvertToGeoJSON
  \/ NextRegions
  \/ SaveRegions

SpecProcess == InitProcess /\ [][NextProcess]_vars

(***************************************************************************)
(* findCitiesInRegion on an arbitrary gazetteer, for a region of a country *)
(* the mapping knows, of one it does not know, and without a country.      *)
(***************************************************************************)
CountryIds == {"russia", "Russia", "usa", "italy", Null}

CityName(k) == CASE k = 1 -> "A" [] k = 2 -> "B" [] k = 3 -> "C" [] OTHER -> "D"

CityFacts == [countryCode : {"RU", "US"}, population : {1, 3, 4}, inside : {"in", "out", "throws"}]

Gazetteers ==
  UNION {{[k \in 1..n |-> [name |-> CityName(k),
                           countryCode |-> facts[k].countryCode,
                           population |-> facts[k].population,
                           inside |-> facts[k].inside]] :
            facts \in [1..n -> CityFacts]} : n \in 0..MaxCities}

InitCities ==
  /\ countryId \in CountryIds
  /\ cities \in Gazetteers
  /\ regionName = NoRegionName
  /\ firstRegions = <<>>
  /\ KoppenIdle
  /\ AllocatorIdle
  /\ YearsIdle
  /\ entry = "findCitiesInRegion"
  /\ pc = "cities"
  /\ targetCount = 1
  /\ rawData = [type |-> "raw", customCoordinates |-> <<>>]
  /\ dropped = 0
  /\ written = <<>>
  /\ RegionsIdle

NextCities == FindCities

SpecCities == InitCities /\ [][NextCities]_vars

(***************************************************************************)
(* createRegions called twice with the same arguments.                     *)
(***************************************************************************)
InitRerun ==
  \E n \in 0..MaxRerunPoints :
    /\ features \in SortedPoints(n)
    /\ inputCount = n
    /\ targetCount \in 1..MaxTarget
    /\ entry = "createRegions"
    /\ pc = "createRegions"
    /\ RegionsRest
    /\ ExtIdle

NextRerun == NextRegions \/ Rerun

SpecRerun == InitRerun /\ [][NextRerun]_vars

(***************************************************************************)
(* createRegions with the climate option, on points of up to two zones.    *)
(***************************************************************************)
Rasters == [PixelLngs -> {7, 26}]

InitKoppen ==
  \E n \in 0..MaxKoppenPoints :
    /\ features \in SortedPoints(n)
    /\ inputCount = n
    /\ targetCount \in 1..MaxTarget
    /\ entry = "createRegions"
    /\ pc = "createRegions"
    /\ RegionsRest
    /\ rawData = [type |-> "raw", customCoordinates |-> <<>>]
    /\ dropped = 0
    /\ written = <<>>
    /\ countryId = Null
    /\ cities = <<>>
    /\ regionName = NoRegionName
    /\ firstRegions = <<>>
    /\ options \in [useKoppen : BOOLEAN, koppenResolution : {"0p5"}]
    /\ koppen \in Rasters
    /\ AllocatorIdle
    /\ YearsIdle

NextKoppen == NextRegions

SpecKoppen == InitKoppen /\ [][NextKoppen]_vars

(***************************************************************************)
(* The zone allocation on up to MaxZones zones whose shares of the points  *)
(* are whole tenths; a tenth of the points is 1 to MaxUnit points.         *)
(***************************************************************************)
Tenths == 10

RECURSIVE Shares(_, _)
Shares(n, total) ==
  IF n = 0 THEN (IF total = 0 THEN {<<>>} ELSE {})
  ELSE UNION {{<<t>> \o rest : rest \in Shares(n - 1, total - t)} : t \in 1..total}

InitAllocate ==
  /\ \E n \in 1..MaxZones, unit \in 1..MaxUnit :
       \E shares \in Shares(n, Tenths) :
         zones = [k \in 1..n |-> [tenths |-> shares[k],
                                  points |-> shares[k] * unit,
                                  quota |-> 0]]
  /\ loopCount = 0
  /\ warning = FALSE
  /\ targetCount \in 1..MaxQuotaTarget
  /\ entry = "allocateZones"
  /\ pc = "allocate"
  /\ RegionsIdle
  /\ rawData = [type |-> "raw", customCoordinates |-> <<>>]
  /\ dropped = 0
  /\ written = <<>>
  /\ CitiesIdle
  /\ firstRegions = <<>>
  /\ KoppenIdle
  /\ YearsIdle

NextAllocate == AllocateQuotas \/ ReconcileStep

SpecAllocate == InitAllocate /\ [][NextAllocate]_vars

(***************************************************************************)
(* Properties of adjustClusterCount.                                       *)
(***************************************************************************)
\* How often point p occurs in the clusters of cs.
RECURSIVE PointCount(_, _)
PointCount(cs, p) ==
  IF cs = <<>> THEN 0
  ELSE Cardinality({k \in 1..Len(Head(cs).points) : Head(cs).points[k] = p})
       + PointCount(Tail(cs), p)

TotalPoints(cs) ==
  LET RECURSIVE Total(_)
      Total(s) == IF s = <<>> THEN 0 ELSE Len(Head(s).points) + Total(Tail(s))
  IN Total(cs)

C3_PointsPreserved ==
  \A p \in 1..Len(features) : PointCount(clusters, p) = PointCount(input, p)

\* A returned cluster of several points is none of the input clusters: it
\* came out of a merge or of a k-means split.
C3_Witness ==
  /\ pc = "done" /\ round = 1
  /\ \E k \in 1..Len(clusters) :
       /\ Len(clusters[k].points) >= 2
       /\ \A j \in 1..Len(input) : clusters[k].points # input[j].points

\* C10: called with exactly targetCount clusters, adjustClusterCount returns
\* the same clusters, each with the points it had and in the order it had
\* them (only the order of the clusters and their ids may differ), and a
\* second call on the result returns it as it is.
C10_AlreadyBalancedUnchanged ==
  (pc = "done" /\ Len(input) = targetCount) =>
    /\ Len(clusters) = Len(input)
    /\ \A k \in 1..Len(clusters) :
         \E j \in 1..Len(input) :
           /\ clusters[k].points = input[j].points
           /\ clusters[k].size = input[j].size
    /\ (round = 2 => clusters = firstResult)

\* The second call has returned on an input of exactly targetCount clusters
\* that the first call had to reorder.
C10_Witness ==
  /\ pc = "done" /\ round = 2
  /\ Len(input) = targetCount
  /\ \E j \in 1..Len(input) : clusters[j].points # input[j].points


\* C11 as stated: when adjustClusterCount cannot reach targetCount because
\* the data is too sparse (every cluster left has fewer than 3 points), it
\* does not return a cluster array of another size as its normal result.
C11_SparseFailsExplicitly ==
  ~(/\ entry = "adjustClusterCount"
    /\ pc = "done"
    /\ Len(clusters) < targetCount
    /\ \A k \in 1..Len(clusters) : Len(clusters[k].points) < MinSplitSize)

\* C11, amended: when the split loop of adjustClusterCount is short of
\* targetCount and every cluster left has fewer than 3 points, the loop ends
\* without an error and the function goes on to return the clusters it has,
\* as many as they were.
C11_SparseReturnsShort ==
  [][(/\ entry = "adjustClusterCount"
      /\ pc = "split"
      /\ clusters # <<>>
      /\ Len(clusters) < targetCount
      /\ \A k \in 1..Len(clusters) : Len(clusters[k].points) < 3)
       => (/\ pc' = "renumber"
           /\ Len(clusters') = Len(clusters)
           /\ \A p \in 1..Len(features) : PointCount(clusters', p) = PointCount(clusters, p))]_vars

\* adjustClusterCount has returned fewer clusters than targetCount, all of
\* them with fewer than 3 points, where it was called with more points than
\* clusters.
C11_Witness ==
  /\ entry = "adjustClusterCount" /\ pc = "done" /\ round = 1
  /\ Len(clusters) < targetCount
  /\ TotalPoints(clusters) > Len(clusters)
  /\ \A k \in 1..Len(clusters) : Len(clusters[k].points) < 3

(***************************************************************************)
(* Properties of performDBSCANClustering.                                  *)
(***************************************************************************)
\* C2: when performDBSCANClustering returns, every input point is in
\* exactly one of the returned clusters and occurs there once: none is
\* dropped, none is in two clusters, none is twice in one cluster.
C2_EveryPointInOneCluster ==
  (pc = "done" /\ entry = "performDBSCANClustering") =>
    /\ \A p \in 1..Len(features) : PointCount(clusters, p) = 1
    /\ \A k \in 1..Len(clusters) :
         \A j \in 1..Len(clusters[k].points) :
           clusters[k].points[j] \in 1..Len(features)

\* The pass has returned a cluster that the density pass grew and that then
\* took in a noise point.
C2_Witness ==
  /\ pc = "done" /\ entry = "performDBSCANClustering"
  /\ \E k \in 1..Len(clusters) :
       /\ \E j \in 1..Len(clusters[k].points) : clusters[k].points[j] \in clustered
       /\ \E j \in 1..Len(clusters[k].points) : clusters[k].points[j] \notin clustered

(***************************************************************************)
(* Properties of assignDirectionalIds.                                     *)
(***************************************************************************)
Labelled ==
  /\ pc = "done" /\ entry = "assignDirectionalIds"
  /\ ~regionPolygons.null
  /\ regionPolygons.features # <<>>

\* The directions of the labels the regions carry.
LabelDirs == {regionPolygons.features[k].directionId.dir :
                k \in 1..Len(regionPolygons.features)}

\* C4: after assignDirectionalIds on a non-empty region collection every
\* region has a directionId, no two regions have the same directionId, and
\* exactly one region is labelled C.
C4_UniqueDirectionIds ==
  Labelled =>
    LET fs == regionPolygons.features
    IN /\ \A k \in 1..Len(fs) : fs[k].directionId # Unset
       /\ \A k \in 1..Len(fs) : fs[k].clusterID = fs[k].directionId
       /\ \A k \in 1..Len(fs), j \in 1..Len(fs) :
            k # j => fs[k].directionId # fs[j].directionId
       /\ Cardinality({k \in 1..Len(fs) : fs[k].directionId.dir = "C"}) = 1

\* A collection was labelled in which two regions got the same direction,
\* one numbered 1 and the other numbered 2.
C4_Witness ==
  /\ Labelled
  /\ \E k \in 1..Len(regionPolygons.features), j \in 1..Len(regionPolygons.features) :
       /\ regionPolygons.features[k].directionId.dir = regionPolygons.features[j].directionId.dir
       /\ regionPolygons.features[k].directionId.num = 1
       /\ regionPolygons.features[j].directionId.num = 2

\* The two intercardinal directions beside a primary direction.
Adjacent(primary) ==
  CASE primary = "N" -> {"NE", "NW"}
    [] primary = "E" -> {"NE", "SE"}
    [] primary = "S" -> {"SE", "SW"}
    [] primary = "W" -> {"SW", "NW"}

\* C5: after assignDirectionalIds, a primary direction (N, E, S, W) that no
\* region is labelled with has no region labelled with either of the two
\* intercardinal directions beside it.
C5_PrimaryBeforeIntercardinal ==
  Labelled =>
    \A primary \in {"N", "E", "S", "W"} :
      primary \notin LabelDirs => Adjacent(primary) \cap LabelDirs = {}

(***************************************************************************)
(* Properties of clustersToPolygons and createRegions.                     *)
(***************************************************************************)
\* clustersToPolygons has returned, in a run of createRegions.
PolygonsReturned == entry = "createRegions" /\ pc \in {"label", "done"}

RECURSIVE SumPointCount(_)
SumPointCount(fs) ==
  IF fs = <<>> THEN 0 ELSE Head(fs).pointCount + SumPointCount(Tail(fs))

\* The points in the clusters discarded for having fewer than 3 points.
RECURSIVE DiscardedSmall(_)
DiscardedSmall(cs) ==
  IF cs = <<>> THEN 0
  ELSE (IF TooSmallForHull(Head(cs)) THEN Len(Head(cs).points) ELSE 0)
       + DiscardedSmall(Tail(cs))

\* C6: every cluster of at least 3 points that clustersToPolygons went
\* through without giving up on the whole array got a polygon feature, by
\* the hull or by the buffer: none was passed over because the hull
\* computation yielded no polygon.
C6_EveryClusterGetsPolygon ==
  entry = "createRegions" =>
    \A k \in 1..Len(hullLog) :
      (Len(clusters[k].points) >= MinHullPoints /\ hullLog[k] # "failed")
        => hullLog[k] \in {"convex", "buffer"}

\* C7: when the hull and the buffer both fail for a cluster,
\* clustersToPolygons still goes through every cluster and returns a
\* FeatureCollection, with the regions built for the other clusters.
C7_FailedClusterOnlySkipped ==
  PolygonsReturned =>
    /\ ~regionPolygons.null
    /\ Len(hullLog) = Len(clusters)
    /\ Len(regionPolygons.features) =
         Cardinality({k \in 1..Len(hullLog) : hullLog[k] \in {"convex", "buffer"}})

\* C8: when createRegions returns, the pointCount of the returned regions
\* and the points of the clusters discarded for having fewer than 3 points
\* add up to the number of points it was called with.
C8_PointsAccountedFor ==
  (entry = "createRegions" /\ pc = "done") =>
    SumPointCount(regionPolygons.features) + DiscardedSmall(clusters) = inputCount

NumericRecords ==
  {k \in 1..Len(rawData.customCoordinates) :
     /\ rawData.customCoordinates[k].lat.type = "number"
     /\ rawData.customCoordinates[k].lng.type = "number"}

C13_InvalidRecordsNeverAbort ==
  ~(/\ entry = "processCountryData"
    /\ pc = "thrown"
    /\ rawData.type = "raw"
    /\ hullLog = <<>>)

(***************************************************************************)
(* Properties of findCitiesInRegion.                                       *)
(***************************************************************************)
\* The cities the name may be drawn from: those of the country's code (all
\* cities when there is no code to filter by) that lie inside the polygon.
Contained ==
  {k \in 1..Len(cities) :
     /\ cities[k].inside = "in"
     /\ (getCountryCode(countryId) # Null => cities[k].countryCode = getCountryCode(countryId))}

Named == entry = "findCitiesInRegion" /\ pc = "done" /\ ~regionName.null

\* C14: the largest contained city is reported alone if and only if its
\* population exceeds 3 times the population of the second largest (or there
\* is no second); otherwise, also at exactly 3 times, both are reported and
\* the display name is "A / B".
C14_AloneIffMoreThanThreeTimes ==
  (Named /\ Cardinality(Contained) >= 2) =>
    LET first == CHOOSE k \in Contained : cities[k].name = regionName.primary
        others == Contained \ {first}
        second == SetMax({cities[k].population : k \in others})
    IN /\ (regionName.secondary = Null <=> cities[first].population > 3 * second)
       /\ (regionName.secondary # Null =>
             regionName.displayName = <<regionName.primary, regionName.secondary>>)

\* C15: every city in a region's name lies inside the region's polygon and
\* has the ISO code of the processed country, whatever country identifier
\* the run was given; without such a city the name is null.
C15_NameFromCountryCities ==
  (entry = "findCitiesInRegion" /\ pc = "done" /\ countryId # Null) =>
    LET usable == {k \in 1..Len(cities) :
                     /\ cities[k].inside = "in"
                     /\ \/ (ToLowerCase(countryId) = "russia" /\ cities[k].countryCode = "RU")
                        \/ (ToLowerCase(countryId) = "usa" /\ cities[k].countryCode = "US")
                        \/ (ToLowerCase(countryId) = "italy" /\ cities[k].countryCode = "IT")}
    IN /\ (usable = {} => regionName.null)
       /\ (~regionName.null =>
             \A i \in 1..Len(regionName.displayName) :
               \E k \in usable : cities[k].name = regionName.displayName[i])

\* The distance of a labelled region's centre from the country centre.
CenterDistance(k) ==
  LET fs == regionPolygons.features
      centers == [i \in 1..Len(fs) |-> fs[i].center]
  IN haversineDistance(centers[k], CountryCenter(centers))

\* The regions of a direction bucket.
Bucket(d) ==
  {k \in 1..Len(regionPolygons.features) : regionPolygons.features[k].directionId.dir = d}

\* C16: within each direction bucket the numeric suffixes are 1..k without
\* gaps, and they follow ascending distance from the country centre: of two
\* regions with the same direction letters the one with the smaller suffix
\* is no farther from the country centre.
C16_SuffixesFollowDistance ==
  Labelled =>
    \A d \in LabelDirs \ {"C"} :
      /\ {regionPolygons.features[k].directionId.num : k \in Bucket(d)}
           = 1..Cardinality(Bucket(d))
      /\ \A x \in Bucket(d), y \in Bucket(d) :
           regionPolygons.features[x].directionId.num
             < regionPolygons.features[y].directionId.num
           => ~DistLess(CenterDistance(y), CenterDistance(x))

\* A bucket of two regions was numbered against the order of the collection:
\* number 1 went to the later region, which is strictly closer.
C16_Witness ==
  /\ Labelled
  /\ \E d \in LabelDirs \ {"C"} : \E x \in Bucket(d), y \in Bucket(d) :
       /\ x > y
       /\ regionPolygons.features[x].directionId.num = 1
       /\ regionPolygons.features[y].directionId.num = 2
       /\ DistLess(CenterDistance(x), CenterDistance(y))

(***************************************************************************)
(* Properties of repeated calls of createRegions.                          *)
(***************************************************************************)
\* No call of the geometry library threw while the polygons of a call were built.
NoThrow(log) == \A i \in 1..Len(log) : log[i] \notin {"buffer", "failed"}

RegionSet(regions) == {regions.features[k] : k \in 1..Len(regions.features)}

\* C17: two calls of createRegions with the same points, the same
\* targetRegions and the same options return the same set of regions
\* (compared where the geometry library threw in neither call).
C17_SameInputSameRegions ==
  (/\ entry = "createRegions" /\ pc = "done"
   /\ firstRegions # <<>>
   /\ NoThrow(hullLog) /\ NoThrow(firstRegions[1].hullLog))
  => /\ regionPolygons.null = firstRegions[1].regions.null
     /\ RegionSet(regionPolygons) = RegionSet(firstRegions[1].regions)

(***************************************************************************)
(* Properties of the climate option.                                       *)
(***************************************************************************)
\* The climate codes of the points a region was built from: those of the
\* cluster the region kept the id of.
ZonesOf(feature) ==
  UNION {{getClimateCode(features[clusters[j].points[i]]) :
            i \in 1..Len(clusters[j].points)} :
         j \in {c \in 1..Len(clusters) :
                  NumId(clusters[c].id) = feature.originalClusterID}} \ {Null}

NinetyTen(d, m) ==
  /\ entry = "allocateZones" /\ pc = "done"
  /\ targetCount = 10
  /\ Len(zones) = 2
  /\ d \in 1..2 /\ m \in 1..2
  /\ zones[d].tenths = 9 /\ zones[m].tenths = 1

\* C19: with two zones of 90% and 10% of the points and targetRegions = 10,
\* for every total point count the final quota of the dominant zone is
\* strictly greater than that of the minor zone, which is at least 1.
C19_DominantZoneGetsMore ==
  \A d \in 1..2, m \in 1..2 :
    NinetyTen(d, m) => (zones[d].quota > zones[m].quota /\ zones[m].quota >= 1)

\* C19 as amended: the same for every total point count of at least 40,
\* that is, when the dominant zone has more than 30 points; with fewer
\* points both zones are capped at one region.
C19_DominantZoneGetsMoreFrom40 ==
  \A d \in 1..2, m \in 1..2 :
    (NinetyTen(d, m) /\ zones[d].points + zones[m].points >= 40)
    => (zones[d].quota > zones[m].quota /\ zones[m].quota >= 1)

\* The allocation of 40 points is over: 36 and 4 points, 2 regions and 1.
C19_Witness ==
  \E d \in 1..2, m \in 1..2 :
    /\ NinetyTen(d, m)
    /\ zones[d].points = 36 /\ zones[m].points = 4
    /\ zones[d].quota = 2 /\ zones[m].quota = 1

SplitResults(cs) ==
  LET sorted == SortLargestFirst(cs)
      largestCluster == Head(sorted)
      seeds == {pair \in (1..Len(largestCluster.points)) \X (1..Len(largestCluster.points)) :
                  pair[1] # pair[2]}
  IN {Tail(sorted) \o splitCluster(largestCluster, pair[1], pair[2]) : pair \in seeds}

\* The split loop is about to bisect its largest cluster.
Bisecting ==
  /\ entry = "adjustClusterCount" /\ pc = "split"
  /\ clusters # <<>>
  /\ SplitNeeded(clusters, targetCount)
  /\ Len(Head(SortLargestFirst(clusters)).points) >= MinSplitSize

\* C21: adjustClusterCount terminates for every cluster set and target
\* count, also when the bisection returns a single sub-cluster: the split
\* loop is never in a state in which no bisection it can make leaves more
\* clusters than there were (such a state is repeated for ever).
C21_AdjustTerminates ==
  Bisecting => \E result \in SplitResults(clusters) : Len(result) > Len(clusters)

(***************************************************************************)
(* The merge phase of adjustClusterCount on arrays of up to                *)
(* MaxMergeClusters clusters, so that a merge is followed by another.      *)
(***************************************************************************)
InitMerge ==
  \E n \in 1..MaxMergePoints, m \in 1..MaxMergeClusters :
    \E f \in SortedFeatures(n) :
      \E assign \in Dealings(f, n, m) :
        /\ features = f
        /\ clusters = ClusterArray(assign, n, m)
        /\ input = ClusterArray(assign, n, m)
        /\ targetCount \in 1..MaxTarget
        /\ entry = "adjustClusterCount"
        /\ pc = "adjust"
        /\ round = 1
        /\ firstResult = <<>>
        /\ maxDistance = [num |-> 0, den |-> 1]
        /\ minPoints = DefaultMinPoints
        /\ idx = 0
        /\ visited = {}
        /\ clustered = {}
        /\ regionPolygons = [null |-> FALSE, features |-> <<>>]
        /\ hullLog = <<>>
        /\ inputCount = 0
        /\ ExtIdle

SpecMerge == InitMerge /\ [][NextAdjust]_vars

\* The merge loop is about to shift a cluster and merge it into another.
Merging ==
  /\ pc = "merge"
  /\ MergeNeeded(clusters, targetCount)
  /\ Tail(clusters) # <<>>

\* C22: every merge step removes the cluster that has the fewest points
\* among the clusters that remain, the points gained by earlier merges
\* counted: the cluster the loop shifts is no larger than any other.
C22_MergeTakesSmallest ==
  Merging =>
    \A k \in 1..Len(clusters) : Len(Head(clusters).points) <= Len(clusters[k].points)

(***************************************************************************)
(* performDBSCANClustering as createRegions calls it (minPoints = 3), on   *)
(* points of a line listed in coordinate order.                            *)
(***************************************************************************)
RECURSIVE SortedLine(_)
SortedLine(n) ==
  IF n = 0 THEN {<<>>}
  ELSE UNION {{Append(f, c) : c \in {d \in NoiseCoordinates :
                                       f = <<>> \/ PointLeq(f[Len(f)], d)}} :
              f \in SortedLine(n - 1)}

InitNoise ==
  \E n \in 0..MaxNoisePoints :
    /\ features \in SortedLine(n)
    /\ maxDistance = [num |-> 1, den |-> 1]
    /\ minPoints = DefaultMinPoints
    /\ entry = "performDBSCANClustering"
    /\ pc = "dbscan"
    /\ idx = 1
    /\ visited = {}
    /\ clustered = {}
    /\ clusters = <<>>
    /\ targetCount = 1
    /\ round = 0
    /\ input = <<>>
    /\ firstResult = <<>>
    /\ regionPolygons = [null |-> FALSE, features |-> <<>>]
    /\ hullLog = <<>>
    /\ inputCount = 0
    /\ ExtIdle

SpecNoise == InitNoise /\ [][NextDbscan]_vars

\* The centre of the bounding box of the points, and their mean.
BoxCenter(points) ==
  LET lngs == {features[points[k]].lng : k \in 1..Len(points)}
      lats == {features[points[k]].lat : k \in 1..Len(points)}
  IN [lng |-> SetMin(lngs) + SetMax(lngs), lat |-> SetMin(lats) + SetMax(lats), den |-> 2]

MeanCenter(points) ==
  [lng |-> SumLng(points), lat |-> SumLat(points), den |-> Len(points)]

\* The second loop handles a point that no cluster absorbed.
NoisePoint ==
  /\ pc = "noise"
  /\ idx <= Len(features)
  /\ idx \notin clustered

\* The step appends the point to cluster j and changes nothing else of the
\* array.
JoinsCluster(j) ==
  /\ j \in 1..Len(clusters)
  /\ clusters' = [clusters EXCEPT ![j].points = Append(@, idx)]

\* The step appends a cluster of the point alone.
SeedsCluster == clusters' = Append(clusters, [id |-> Len(clusters), points |-> <<idx>>, size |-> 1])

\* C23: each noise point is added to the cluster whose centroid, the mean
\* of the cluster's member coordinates, is nearest to the point; only when
\* there is no cluster does the point seed a cluster of its own.
C23_NoiseJoinsNearestMean ==
  [][NoisePoint =>
       IF clusters = <<>> THEN SeedsCluster
       ELSE \E j \in 1..Len(clusters) :
              /\ JoinsCluster(j)
              /\ \A k \in 1..Len(clusters) :
                   ~DistLess(haversineDistance(PointLoc(features[idx]), MeanCenter(clusters[k].points)),
                             haversineDistance(PointLoc(features[idx]), MeanCenter(clusters[j].points)))]_vars

\* C23, amended: each noise point is added to the cluster whose centre, the
\* centre of the bounding box of the cluster's points (the point itself for
\* a cluster of one), is nearest to the point, the first such cluster of
\* the array when several are equally near; only when there is no cluster
\* does the point seed a cluster of its own.
C23_NoiseJoinsNearestBoxCenter ==
  [][NoisePoint =>
       IF clusters = <<>> THEN SeedsCluster
       ELSE \E j \in 1..Len(clusters) :
              /\ JoinsCluster(j)
              /\ \A k \in 1..Len(clusters) :
                   LET dk == haversineDistance(PointLoc(features[idx]), BoxCenter(clusters[k].points))
                       dj == haversineDistance(PointLoc(features[idx]), BoxCenter(clusters[j].points))
                   IN /\ ~DistLess(dk, dj)
                      /\ k < j => DistLess(dj, dk)]_vars

\* A noise point has joined one of two clusters whose bounding-box centre is
\* not the mean of its points.
C23_Witness ==
  /\ pc = "noise"
  /\ Len(clusters) >= 2
  /\ \E j \in 1..Len(clusters) :
       /\ \E k \in 1..Len(clusters[j].points) :
            clusters[j].points[k] < idx /\ clusters[j].points[k] \notin clustered
       /\ LET box == BoxCenter(SubSeq(clusters[j].points, 1, clusters[j].size))
              mean == MeanCenter(SubSeq(clusters[j].points, 1, clusters[j].size))
          IN box.lng * mean.den # mean.lng * box.den

(***************************************************************************)
(* The neighbour set of the density pass.                                  *)
(***************************************************************************)
\* The other points of the input, told apart by their place in it, that lie
\* within maxDistance of point p.
OtherPointsWithin(p) ==
  {i \in 1..Len(features) \ {p} :
     ~DistLess(maxDistance, haversineDistance(PointLoc(features[p]), PointLoc(features[i])))}

\* The first loop comes to a point it has not visited.
VisitsPoint ==
  /\ pc = "dbscan"
  /\ idx <= Len(features)
  /\ idx \notin visited

\* C24: the neighbour set of a point is the set of the other input points
\* within maxDistance of it, points with its own coordinates included, and
\* the point seeds a cluster exactly if that set has at least minPoints
\* members.
C24_SeedsIffEnoughOtherPoints ==
  [][VisitsPoint =>
       /\ {findNeighbors(idx)[k] : k \in 1..Len(findNeighbors(idx))} = OtherPointsWithin(idx)
       /\ (Len(clusters') = Len(clusters) + 1) <=> (Cardinality(OtherPointsWithin(idx)) >= minPoints)]_vars

(***************************************************************************)
(* What assignDirectionalIds leaves alone.                                 *)
(***************************************************************************)
\* assignDirectionalIds is called on a collection that holds a region.
LabelsRegions ==
  /\ pc = "label"
  /\ ~regionPolygons.null
  /\ regionPolygons.features # <<>>

\* C25: on a non-empty collection assignDirectionalIds changes labels only:
\* every region keeps its geometry, pointCount, yearTags and city name, its
\* directionId is set, its clusterID becomes the directionId and its former
\* numeric cluster id is kept as originalClusterID.
C25_LabelsOnly ==
  [][LabelsRegions =>
       /\ ~regionPolygons'.null
       /\ Len(regionPolygons'.features) = Len(regionPolygons.features)
       /\ \A k \in 1..Len(regionPolygons.features) :
            LET before == regionPolygons.features[k]
                after == regionPolygons'.features[k]
            IN /\ after.hull = before.hull
               /\ after.center = before.center
               /\ after.pointCount = before.pointCount
               /\ after.yearTags = before.yearTags
               /\ after.regionName = before.regionName
               /\ after.directionId # Unset
               /\ after.directionId.dir \in {"C", "N", "NE", "E", "SE", "S", "SW", "W", "NW"}
               /\ after.clusterID = after.directionId
               /\ after.originalClusterID = before.clusterID]_vars

\* Three regions are labelled, with differing counts, tags and names.
C25_Witness ==
  /\ entry = "assignDirectionalIds" /\ pc = "done"
  /\ Len(regionPolygons.features) = 3
  /\ \A k \in 1..3 : regionPolygons.features[k].originalClusterID = NumId(k - 1)
  /\ regionPolygons.features[2].regionName # regionPolygons.features[1].regionName
  /\ regionPolygons.features[2].directionId.dir # "C"

(***************************************************************************)
(* getFrequentYears on an arbitrary cluster: up to MaxYearPoints points    *)
(* with up to MaxTags years each, out of four years.                       *)
(***************************************************************************)
Years == {2013, 2017, 2019, 2021}

YearLists == UNION {[1..m -> Years] : m \in 0..MaxTags}

InitYears ==
  /\ \E n \in 0..MaxYearPoints : pointYears \in [1..n -> YearLists]
  /\ yearTags = <<>>
  /\ entry = "getFrequentYears"
  /\ pc = "years"
  /\ targetCount = 1
  /\ RegionsIdle
  /\ rawData = [type |-> "raw", customCoordinates |-> <<>>]
  /\ dropped = 0
  /\ written = <<>>
  /\ CitiesIdle
  /\ firstRegions = <<>>
  /\ KoppenIdle
  /\ AllocatorIdle

NextYears == TagYears

SpecYears == InitYears /\ [][NextYears]_vars

\* How often the year occurs in the years of the cluster's points.
Occurrences(year) ==
  Cardinality({place \in UNION {{<<k, t>> : t \in 1..Len(pointYears[k])} : k \in 1..Len(pointYears)} :
                 pointYears[place[1]][place[2]] = year})

\* C26: yearTags holds at most 3 entries in non-increasing order of count,
\* each count is the number of occurrences of its year in the years of the
\* cluster's points, and no year that is not listed occurs more often than
\* a listed year.
C26_TopThreeYears ==
  (entry = "getFrequentYears" /\ pc = "done") =>
    /\ Len(yearTags) <= 3
    /\ \A i \in 1..Len(yearTags), j \in 1..Len(yearTags) :
         i < j => yearTags[i].count >= yearTags[j].count
    /\ \A i \in 1..Len(yearTags) : yearTags[i].count = Occurrences(yearTags[i].year)
    /\ \A year \in Years :
         (\A i \in 1..Len(yearTags) : yearTags[i].year # year) =>
           \A i \in 1..Len(yearTags) : Occurrences(year) <= yearTags[i].count

\* Four years occur, not all equally often, and one of them is left out.
C26_Witness ==
  /\ entry = "getFrequentYears" /\ pc = "done"
  /\ Len(yearTags) = 3
  /\ \A year \in Years : Occurrences(year) > 0
  /\ yearTags[1].count > yearTags[3].count

(***************************************************************************)
(* The hull strategies of clustersToPolygons.                              *)
(***************************************************************************)
\* The hull calls the loop body makes on the way to an outcome, in order:
\* none for a skipped cluster, turf.convex alone when it returns (a polygon
\* or null), turf.convex and then turf.buffer when turf.convex threw.
StrategiesTried(outcome) ==
  CASE outcome = "small" -> <<>>
    [] outcome \in {"convex", "none"} -> <<"convex">>
    [] OTHER -> <<"convex", "buffer">>

\* The clusters clustersToPolygons has gone through so far.
Processed == 1..Len(hullLog)

\* The regions built so far come from the clusters whose hull succeeded, in
\* order.
RECURSIVE HullsOf(_)
HullsOf(log) ==
  IF log = <<>> THEN <<>>
  ELSE (IF Head(log) \in {"convex", "buffer"} THEN <<Head(log)>> ELSE <<>>) \o HullsOf(Tail(log))

ClustersReturned ==
  /\ entry \in {"performDBSCANClustering", "adjustClusterCount"}
  /\ pc = "done"

\* C28: every cluster that performDBSCANClustering or adjustClusterCount
\* returns has size = points.length, also after noise points were added to
\* it and after another cluster was merged into it.
C28_SizeIsPointCount ==
  ClustersReturned =>
    \A k \in 1..Len(clusters) : clusters[k].size = Len(clusters[k].points)

(***************************************************************************)
(* The reassignment of compass buckets in assignDirectionalIds.            *)
(***************************************************************************)
\* The regions of the labelled collection other than the centre region.
OuterRegions ==
  {k \in 1..Len(regionPolygons.features) : regionPolygons.features[k].directionId.dir # "C"}

\* The bucket the bearing of each region falls in, and the bucket of the
\* label of region k.
Octants ==
  LET centers == [j \in 1..Len(regionPolygons.features) |-> regionPolygons.features[j].center]
      countryCenter == CountryCenter(centers)
  IN [j \in 1..Len(centers) |-> Direction(calculateBearing(countryCenter, centers[j]))]

BucketOf(k) == regionPolygons.features[k].directionId.dir

\* The primary directions beside a direction: two for an intercardinal
\* direction, none for a primary one.
PrimariesBeside(direction) == {d \in {"N", "E", "S", "W"} : direction \in Adjacent(d)}

\* C29: a region leaves the bucket of its bearing only from an
\* intercardinal bucket into an adjacent primary bucket that held no
\* region; a region whose bearing falls in a primary octant keeps that
\* direction, and at most one region is moved into each primary direction.
C29_OnlyIntoEmptyAdjacentPrimary ==
  (entry = "assignDirectionalIds" /\ pc = "done" /\ regionPolygons.features # <<>>) =>
    LET octant == Octants
    IN /\ \A k \in OuterRegions :
            \/ BucketOf(k) = octant[k]
            \/ /\ BucketOf(k) \in PrimariesBeside(octant[k])
               /\ \A j \in OuterRegions : octant[j] # BucketOf(k)
       /\ \A k \in OuterRegions :
            octant[k] \in {"N", "E", "S", "W"} => BucketOf(k) = octant[k]
       /\ \A d \in {"N", "E", "S", "W"} :
            Cardinality({k \in OuterRegions : octant[k] # d /\ BucketOf(k) = d}) <= 1

\* A region was moved into a primary bucket while another region of the
\* same intercardinal bucket stayed.
C29_Witness ==
  /\ entry = "assignDirectionalIds" /\ pc = "done"
  /\ \E k \in OuterRegions, j \in OuterRegions :
       /\ k # j
       /\ Octants[k] = Octants[j]
       /\ BucketOf(k) # Octants[k]
       /\ BucketOf(j) = Octants[j]

(***************************************************************************)
(* The regions file of processCountryData.                                 *)
(***************************************************************************)
\* C30: processCountryData writes the regions file only as the last step
\* of a successful run: when the call throws, it has written no regions
\* file, and every file it writes contains a FeatureCollection.
C30_WrittenOnlyOnSuccess ==
  entry = "processCountryData" =>
    /\ pc = "thrown" => written = <<>>
    /\ \A w \in 1..Len(written) : written[w] = "FeatureCollection"

====
